---- MODULE Spec2Model ----
(***************************************************************************)
(* opm - the dependency reconciler of the Odin package manager:            *)
(* addPackage, removePackage, updatePackage and installPackages of         *)
(* commands/package.ts together with the lockfile store of utils/config.ts.*)
(*                                                                         *)
(* Strings are sequences of one-character strings, so that the specifier   *)
(* parser, the path building and the shell calls work on real text.        *)
(***************************************************************************)
EXTENDS Integers, Sequences, FiniteSets, TLC

(***************************************************************************)
(* Text helpers (JavaScript string methods used by the source)             *)
(***************************************************************************)

\* the characters of the regular expression class \w
WordChars ==
    {"a","b","c","d","e","f","g","h","i","j","k","l","m","n","o","p","q","r",
     "s","t","u","v","w","x","y","z","A","B","C","D","E","F","G","H","I","J",
     "K","L","M","N","O","P","Q","R","S","T","U","V","W","X","Y","Z",
     "0","1","2","3","4","5","6","7","8","9","_"}

\* every character of s is in the class cls
AllIn(s, cls) == \A i \in 1..Len(s) : s[i] \in cls

\* String.prototype.includes for a one-character needle
Includes(s, c) == \E i \in 1..Len(s) : s[i] = c

\* String.prototype.startsWith
StartsWith(s, p) == Len(s) >= Len(p) /\ SubSeq(s, 1, Len(p)) = p

\* String.prototype.slice(n)
Slice(s, n) == SubSeq(s, n + 1, Len(s))

\* index of the first occurrence of character c in s, 0 when there is none
IndexOf(s, c) ==
    IF Includes(s, c) THEN CHOOSE i \in 1..Len(s) : s[i] = c /\ \A j \in 1..(i-1) : s[j] # c
    ELSE 0

\* String.prototype.split for a one-character separator: the sequence of pieces
RECURSIVE Split(_, _)
Split(s, c) ==
    IF ~Includes(s, c) THEN <<s>>
    ELSE <<SubSeq(s, 1, IndexOf(s, c) - 1)>> \o Split(Slice(s, IndexOf(s, c)), c)

\* String.prototype.replace(p, "") : removes the first occurrence of p
\* (hits: the places where p occurs in s; i: the first of them, 0 when none)
ReplaceFirst(s, p) ==
    LET hits == {i \in 1..(Len(s) - Len(p) + 1) : SubSeq(s, i, i + Len(p) - 1) = p}
        i == IF hits = {} THEN 0 ELSE CHOOSE h \in hits : \A j \in hits : h <= j
    IN  IF i = 0 THEN s ELSE SubSeq(s, 1, i - 1) \o SubSeq(s, i + Len(p), Len(s))

\* the k-th element of a destructured array, the empty text when it is undefined
Piece(parts, k) == IF k <= Len(parts) THEN parts[k] ELSE <<>>

\* Array.prototype.pop of a split: the last piece
LastPiece(parts) == parts[Len(parts)]

UNDEFINED == <<"u","n","d","e","f","i","n","e","d">>
DEFAULT_NAME == <<"p","a","c","k","a","g","e">>
LOCAL_COMMIT == <<"l","o","c","a","l">>
PACKAGES_DIR == <<"o","d","i","n","_","p","a","c","k","a","g","e","s">>

(***************************************************************************)
(* parsePackageSpec                                                        *)
(***************************************************************************)

\* /^[\w-]+\/[\w-]+(@[\w.-]+)?(#[\w.-]+)?$/
HashPartOK(t) ==
    t = <<>> \/ (Len(t) >= 2 /\ t[1] = "#" /\ AllIn(Slice(t, 1), WordChars \cup {".", "-"}))

TailOK(t) ==
    \/ HashPartOK(t)
    \/ /\ Len(t) >= 2
       /\ t[1] = "@"
       /\ \E k \in 2..Len(t) :
            /\ AllIn(SubSeq(t, 2, k), WordChars \cup {".", "-"})
            /\ HashPartOK(Slice(t, k))

IsShorthand(s) ==
    \E i \in 2..Len(s) :
        /\ s[i] = "/"
        /\ AllIn(SubSeq(s, 1, i - 1), WordChars \cup {"-"})
        /\ \E j \in (i + 1)..Len(s) :
            /\ AllIn(SubSeq(s, i + 1, j), WordChars \cup {"-"})
            /\ TailOK(Slice(s, j))

\* a split that knows the tag mark only
PathAndRef_AtOnly(s) == IF Includes(s, "@") THEN Split(s, "@") ELSE <<s>>

\* [fullPath, ref] = s.includes("@") ? s.split("@") : s.includes("#") ? s.split("#") : [s, undefined]
PathAndRef(s) ==
    IF Includes(s, "@") THEN Split(s, "@")
    ELSE IF Includes(s, "#") THEN Split(s, "#")
    ELSE <<s>>

\* the github source of "user/repo[@ref|#ref]"
GithubSource(s) ==
    LET pr == PathAndRef(s)
        ur == Split(Piece(pr, 1), "/")
        user == Piece(ur, 1)
        repo == IF Len(ur) >= 2 THEN ur[2] ELSE UNDEFINED
    IN  [ok |-> TRUE,
         name |-> IF Piece(ur, 2) = <<>> THEN DEFAULT_NAME ELSE Piece(ur, 2),
         type |-> "github",
         url |-> <<"h","t","t","p","s",":","/","/","g","i","t","h","u","b",".","c","o","m","/">>
                 \o user \o <<"/">> \o repo,
         ref |-> Piece(pr, 2)]

InvalidSpec == [ok |-> FALSE, name |-> <<>>, type |-> "invalid", url |-> <<>>, ref |-> <<>>]

parsePackageSpec(spec) ==
    IF IsShorthand(spec) THEN GithubSource(spec)
    ELSE IF StartsWith(spec, <<"g","i","t","h","u","b",":">>) THEN GithubSource(Slice(spec, 7))
    ELSE IF StartsWith(spec, <<"g","i","t",":">>) THEN
        LET url == Slice(spec, 4)
            leaf == ReplaceFirst(LastPiece(Split(url, "/")), <<".","g","i","t">>)
        IN  [ok |-> TRUE, name |-> IF leaf = <<>> THEN DEFAULT_NAME ELSE leaf,
             type |-> "git", url |-> url, ref |-> <<>>]
    ELSE IF StartsWith(spec, <<"p","a","t","h",":">>) THEN
        LET path == Slice(spec, 5)
            leaf == LastPiece(Split(path, "/"))
        IN  [ok |-> TRUE, name |-> IF leaf = <<>> THEN DEFAULT_NAME ELSE leaf,
             type |-> "local", url |-> path, ref |-> <<>>]
    ELSE InvalidSpec

\* the characters of the model in code-unit order
ASCII ==
    <<"#","-",".","/","0","1","2","3","4","5","6","7","8","9",":","@",
      "A","B","C","D","E","F","G","H","I","J","K","L","M","N","O","P","Q","R",
      "S","T","U","V","W","X","Y","Z","_",
      "a","b","c","d","e","f","g","h","i","j","k","l","m","n","o","p","q","r",
      "s","t","u","v","w","x","y","z">>

CharCode(c) == CHOOSE i \in 1..Len(ASCII) : ASCII[i] = c

\* text order of two strings (Array.prototype.sort without a comparator)
RECURSIVE StrLess(_, _)
StrLess(a, b) ==
    IF b = <<>> THEN FALSE
    ELSE IF a = <<>> THEN TRUE
    ELSE IF Head(a) = Head(b) THEN StrLess(Tail(a), Tail(b))
    ELSE CharCode(Head(a)) < CharCode(Head(b))

(***************************************************************************)
(* JavaScript objects as ordered maps: a sequence of [k, v] pairs          *)
(***************************************************************************)

Has(o, key) == \E i \in 1..Len(o) : o[i].k = key

\* o[key]; only used where Has(o, key)
Get(o, key) == o[CHOOSE i \in 1..Len(o) : o[i].k = key].v

\* an integer index: the canonical decimal form of an integer below 2^32 - 1 (keys
\* of ten digits and more, where that limit matters, do not occur here)
IsIndex(key) ==
    /\ Len(key) \in 1..9
    /\ AllIn(key, {"0","1","2","3","4","5","6","7","8","9"})
    /\ (Len(key) = 1 \/ key[1] # "0")

\* OrdinaryOwnPropertyKeys: integer indices first, in ascending numeric order,
\* then the other keys in the order of their creation.
\* The number of keys of o that precede a new key (indices compare as numbers:
\* the shorter is the smaller, equal lengths compare digit by digit)
Before(o, key) ==
    IF IsIndex(key)
    THEN Cardinality({i \in 1..Len(o) :
            /\ IsIndex(o[i].k)
            /\ \/ Len(o[i].k) < Len(key)
               \/ Len(o[i].k) = Len(key) /\ StrLess(o[i].k, key)})
    ELSE Len(o)

\* o[key] = val : an existing key keeps its place, a new key takes the place the
\* property order gives it
Put(o, key, val) ==
    IF Has(o, key) THEN [i \in 1..Len(o) |-> IF o[i].k = key THEN [k |-> key, v |-> val] ELSE o[i]]
    ELSE SubSeq(o, 1, Before(o, key)) \o <<[k |-> key, v |-> val]>>
         \o SubSeq(o, Before(o, key) + 1, Len(o))

\* delete o[key]
Del(o, key) == SelectSeq(o, LAMBDA e : e.k # key)

\* Object.keys(o)
Keys(o) == [i \in 1..Len(o) |-> o[i].k]

KeySet(o) == {o[i].k : i \in 1..Len(o)}

\* { ...a, ...b }
RECURSIVE Spread(_, _)
Spread(a, b) == IF b = <<>> THEN a ELSE Spread(Put(a, Head(b).k, Head(b).v), Tail(b))

(***************************************************************************)
(* Lockfile store (utils/config.ts)                                        *)
(***************************************************************************)

LOCK_VERSION == 1

\* a lookup that found nothing (undefined)
NoEntry == [specifier |-> <<>>, resolved |-> <<>>, commit |-> <<>>]

\* insertion of a pair into a map sorted by key
RECURSIVE SortedInsert(_, _)
SortedInsert(o, e) ==
    IF o = <<>> THEN <<e>>
    ELSE IF StrLess(e.k, Head(o).k) THEN <<e>> \o o
    ELSE <<Head(o)>> \o SortedInsert(Tail(o), e)

RECURSIVE SortByKey(_)
SortByKey(o) == IF o = <<>> THEN <<>> ELSE SortedInsert(SortByKey(Tail(o)), Head(o))

\* loadLockfile: the file's content, or the empty lockfile when there is no file
loadLockfile(lf) == IF lf.exists THEN lf.packages ELSE <<>>

getLockfileEntry(packages, name) == IF Has(packages, name) THEN Get(packages, name) ELSE NoEntry

setLockfileEntry(packages, name, entry) == Put(packages, name, entry)

removeLockfileEntry(packages, name) == Del(packages, name)

\* the file saveLockfile writes
\* (sortedPackages is filled key by key in sorted order)
SavedLockfile(packages) ==
    [exists |-> TRUE, version |-> LOCK_VERSION, packages |-> Spread(<<>>, SortByKey(packages))]

(***************************************************************************)
(* The lockfile as a file: its text, line by line                          *)
(***************************************************************************)

\* a line of JSON.stringify(lockfile, null, 2): its kind t, and what it carries
Line(t, k, v, n) == [t |-> t, k |-> k, v |-> v, n |-> n]

\* JSON.stringify(lockfile, null, 2) + "\n": the members in the order of the
\* object's keys, then the newline
LockText(obj) ==
    <<Line("{", <<>>, NoEntry, 0),
      Line("version", <<>>, NoEntry, obj.version),
      Line("packages{", <<>>, NoEntry, 0)>>
    \o [i \in 1..Len(obj.packages) |-> Line("entry", obj.packages[i].k, obj.packages[i].v, 0)]
    \o <<Line("}", <<>>, NoEntry, 0), Line("}", <<>>, NoEntry, 0)>>
    \o <<Line("newline", <<>>, NoEntry, 0)>>

\* a text without its trailing white space
Trimmed(text) ==
    IF text # <<>> /\ text[Len(text)].t = "newline" THEN SubSeq(text, 1, Len(text) - 1) ELSE text

\* a complete JSON text of a lockfile
WellFormed(body) ==
    /\ Len(body) >= 5
    /\ body[1].t = "{"
    /\ body[2].t = "version"
    /\ body[3].t = "packages{"
    /\ \A i \in 4..(Len(body) - 2) : body[i].t = "entry"
    /\ body[Len(body) - 1].t = "}"
    /\ body[Len(body)].t = "}"

\* file.json(): the object of a text (the members of packages created in text
\* order), or a failure
JsonParse(text) ==
    IF WellFormed(Trimmed(text))
    THEN [ok |-> TRUE,
          val |-> [version |-> Trimmed(text)[2].n,
                   packages |-> Spread(<<>>, [i \in 1..(Len(Trimmed(text)) - 5) |->
                                   [k |-> Trimmed(text)[i + 3].k, v |-> Trimmed(text)[i + 3].v]])]]
    ELSE [ok |-> FALSE, val |-> [version |-> 0, packages |-> <<>>]]

\* the file opm.lock: whether it exists, and its text
NoFile == [exists |-> FALSE, text |-> <<>>]

\* a load that starts from the empty lockfile whatever the file holds
LoadedLockfile_Fresh(file) == [ok |-> TRUE, val |-> [version |-> LOCK_VERSION, packages |-> <<>>]]

\* loadLockfile on the file: { version: 1, packages: {} } when there is no file
LoadedLockfile(file) ==
    IF file.exists THEN JsonParse(file.text)
    ELSE [ok |-> TRUE, val |-> [version |-> LOCK_VERSION, packages |-> <<>>]]

\* saveLockfile: the object after lockfile.packages = sortedPackages
SortedLockfile(obj) == [obj EXCEPT !.packages = SavedLockfile(obj.packages).packages]

\* the store at rest: no file, no object loaded, no write in progress
\* held: a command holds a Lockfile object obj; pc: "writing" while a Bun.write of
\* the text pending is under way; old: the file as it was when that write began;
\* seen: what another process last read from the file
NoStore ==
    [file |-> NoFile, held |-> FALSE, obj |-> [version |-> LOCK_VERSION, packages |-> <<>>],
     pc |-> "idle", pending |-> <<>>, old |-> NoFile, seen |-> NoFile]

(***************************************************************************)
(* The world outside the program: remote repositories and the file system  *)
(***************************************************************************)

MaxRev == 3
MaxOps == 3
MaxFaults == 1

\* the specifiers users write in this model
SpecPlain == <<"a","/","w">>
SpecHint == <<"a","/","g","@","v">>
SpecLocal == <<"p","a","t","h",":","/","t","/","m">>
SpecPool == {SpecPlain, SpecHint, SpecLocal}

Names == {parsePackageSpec(s).name : s \in SpecPool}
GitUrls == {parsePackageSpec(s).url : s \in {t \in SpecPool : parsePackageSpec(t).type # "local"}}
LocalPaths == {parsePackageSpec(s).url : s \in {t \in SpecPool : parsePackageSpec(t).type = "local"}}

\* ref names a remote may carry; the empty name is the default branch
HEAD_REF == <<>>
RefNames == {HEAD_REF} \cup {parsePackageSpec(s).ref : s \in SpecPool}

Digit(n) == <<"0","1","2","3","4","5","6","7","8","9">>[n + 1]

\* the remote repositories, numbered
UrlSeq == <<parsePackageSpec(SpecPlain).url, parsePackageSpec(SpecHint).url>>
UrlCode(url) == CHOOSE i \in 1..Len(UrlSeq) : UrlSeq[i] = url

\* the commit id of revision rev of the repository at url (a short stand-in for
\* the 40 hex digits: "c", the number of the repository, the revision)
Hash(url, rev) == <<"c", Digit(UrlCode(url)), Digit(rev)>>

IsHashOf(url, h) == \E r \in 1..(MaxRev + 1) : h = Hash(url, r)
RevOf(url, h) == CHOOSE r \in 1..(MaxRev + 1) : h = Hash(url, r)

VARIABLES
    manifest,   \* opm.json: dependencies, devDependencies, collections
    lockfile,   \* opm.lock: exists, version, packages
    fs,         \* directories and links on disk, by path
    remote,     \* remote[url][ref] = the revision the ref points at (0: no such ref)
    last,       \* the last command: what ran, its outcome and the calls it made
    hist,       \* installed: the declared packages materialized at least once;
                \* drifted: whether a working copy was moved by hand
    ops,        \* number of steps taken
    faults,     \* number of commands in which a call failed
    store,      \* the lockfile store seen from outside a command: the text of
                \* opm.lock, the Lockfile object in memory, a write in progress
    parsed,     \* a specifier as the user types it, and what parsePackageSpec
                \* made of it
    toolchain   \* the compiler versions: those installed, the link ~/.opm/current,
                \* currentVersion of the global config, a switch in progress

vars == <<manifest, lockfile, fs, remote, last, hist, ops, faults, store, parsed, toolchain>>

\* two versions installed, none in use: no link, no currentVersion ("" stands for
\* a missing link and for an absent member).  pc: the call of useVersion that
\* comes next; target: the version being switched to; was: the link when the
\* switch began; seen: what another process last read from the link
NoToolchain ==
    [installed |-> {"dev-1", "dev-2"}, link |-> "", config |-> "", pc |-> "idle",
     target |-> "", was |-> "", seen |-> ""]

\* no specifier typed yet
NoParse == [text |-> <<>>, pieces |-> 0, pc |-> "start", out |-> InvalidSpec]

\* `${PACKAGES_DIR}/${name}`
PackageDir(name) == PACKAGES_DIR \o <<"/">> \o name

\* entries of the file system
GitDir(url, head, ref, detached, base) ==
    [kind |-> "git", origin |-> url, head |-> head, ref |-> ref, detached |-> detached, base |-> base]
SymLink(target) ==
    [kind |-> "link", origin |-> target, head |-> 0, ref |-> <<>>, detached |-> FALSE, base |-> 0]
PlainDir ==
    [kind |-> "dir", origin |-> <<>>, head |-> 0, ref |-> <<>>, detached |-> FALSE, base |-> 0]

FsPut(f, p, e) == [q \in (DOMAIN f) \cup {p} |-> IF q = p THEN e ELSE f[q]]
FsDel(f, p) == [q \in (DOMAIN f) \ {p} |-> f[q]]

\* a path with its symbolic link followed
Resolve(f, p) == IF p \in DOMAIN f /\ f[p].kind = "link" THEN f[p].origin ELSE p

\* Bun.file(`${dir}/.git/config`).exists()
HasGitConfig(f, dir) == Resolve(f, dir) \in DOMAIN f /\ f[Resolve(f, dir)].kind = "git"

(***************************************************************************)
(* Shell calls and file writes.  A command runs in a context                *)
(*   c = [fs, mf, lf, n, fault, kill, calls, log]                           *)
(* fs, mf, lf: disk, manifest file and lockfile as the command sees them;   *)
(* n: external calls made so far; calls: their kinds, log: in order; fault:  *)
(* the number of the call that fails in this run (0: none); kill: whether   *)
(* the failing call dies half-way, leaving what it had written.             *)
(* Every call returns [c, ok, val].                                         *)
(***************************************************************************)

R(c, ok, val) == [c |-> c, ok |-> ok, val |-> val]

Step(c, kind) ==
    [c EXCEPT !.n = @ + 1, !.calls = @ \cup {kind}, !.log = Append(@, kind)]

\* the call about to be made is the one that fails in this run
Hit(c) == c.fault = c.n + 1

RefRev(url, ref) ==
    IF url \in DOMAIN remote /\ ref \in DOMAIN remote[url] THEN remote[url][ref] ELSE 0

MaxOf(a, b) == IF a >= b THEN a ELSE b

\* mkdir -p odin_packages
Mkdir(c) == R(Step(c, "mkdir"), ~Hit(c), <<>>)

\* git clone [--depth 1] [--branch branch] url dir      (shallow: --depth 1)
\* git clone --no-checkout url dir                       (~shallow)
GitClone(c, url, dir, branch, shallow) ==
    LET c1 == Step(c, IF shallow THEN "clone" ELSE "cloneNoCheckout")
        tip == RefRev(url, branch)
        can == tip > 0 /\ dir \notin DOMAIN c.fs
    IN  IF ~can THEN R(c1, FALSE, <<>>)
        ELSE IF Hit(c) THEN
            R([c1 EXCEPT !.fs = IF c.kill THEN FsPut(c.fs, dir, GitDir(url, 0, branch, FALSE, 0))
                                ELSE c.fs], FALSE, <<>>)
        ELSE R([c1 EXCEPT !.fs = FsPut(c.fs, dir,
                     GitDir(url, tip, branch, FALSE, IF shallow THEN tip ELSE 1))], TRUE, <<>>)

\* the revisions a working copy can check out once it has fetched
Available(e, rev) ==
    e.base >= 1 /\ e.base <= rev /\ rev <= MaxOf(e.head, RefRev(e.origin, e.ref))

\* cd dir && git checkout what
GitCheckout(c, dir, what) ==
    LET c1 == Step(c, "checkout")
        d == Resolve(c.fs, dir)
        e == c.fs[d]
        isCommit == IsHashOf(e.origin, what) /\ Available(e, RevOf(e.origin, what))
        isRef == what # <<>> /\ RefRev(e.origin, what) > 0
    IN  IF Hit(c) \/ ~HasGitConfig(c.fs, dir) THEN R(c1, FALSE, <<>>)
        ELSE IF isCommit THEN
            R([c1 EXCEPT !.fs = FsPut(c.fs, d, [e EXCEPT !.head = RevOf(e.origin, what),
                                                         !.detached = TRUE])], TRUE, <<>>)
        ELSE IF isRef THEN
            R([c1 EXCEPT !.fs = FsPut(c.fs, d, [e EXCEPT !.head = RefRev(e.origin, what),
                                                         !.ref = what,
                                                         !.detached = FALSE])], TRUE, <<>>)
        ELSE R(c1, FALSE, <<>>)

\* cd dir && git fetch
GitFetch(c, dir) ==
    R(Step(c, "fetch"), ~Hit(c) /\ HasGitConfig(c.fs, dir), <<>>)

\* cd dir && git pull --ff-only
GitPull(c, dir) ==
    LET c1 == Step(c, "pull")
        d == Resolve(c.fs, dir)
        e == c.fs[d]
    IN  IF Hit(c) \/ ~HasGitConfig(c.fs, dir) THEN R(c1, FALSE, <<>>)
        ELSE IF e.head = 0 \/ e.detached \/ RefRev(e.origin, e.ref) < e.head THEN R(c1, FALSE, <<>>)
        ELSE R([c1 EXCEPT !.fs = FsPut(c.fs, d, [e EXCEPT !.head = RefRev(e.origin, e.ref)])],
               TRUE, <<>>)

\* ln -s target dir
LnS(c, target, dir) ==
    LET c1 == Step(c, "symlink")
        d == Resolve(c.fs, dir)
        inside == d \o <<"/">> \o LastPiece(Split(target, "/"))
    IN  IF Hit(c) THEN R(c1, FALSE, <<>>)
        ELSE IF dir \notin DOMAIN c.fs THEN
            R([c1 EXCEPT !.fs = FsPut(c.fs, dir, SymLink(target))], TRUE, <<>>)
        ELSE IF d \in DOMAIN c.fs /\ c.fs[d].kind # "link" /\ inside \notin DOMAIN c.fs THEN
            R([c1 EXCEPT !.fs = FsPut(c.fs, inside, SymLink(target))], TRUE, <<>>)
        ELSE R(c1, FALSE, <<>>)

\* rm -rf dir
RmRf(c, dir) ==
    IF Hit(c) THEN R(Step(c, "rm"), FALSE, <<>>)
    ELSE R([Step(c, "rm") EXCEPT !.fs = FsDel(c.fs, dir)], TRUE, <<>>)

\* test -L dir   (.nothrow(): a failure reads as "no link")
TestL(c, dir) ==
    R(Step(c, "test"), ~Hit(c) /\ dir \in DOMAIN c.fs /\ c.fs[dir].kind = "link", <<>>)

\* getCommitHash: cd repoDir && git rev-parse HEAD
getCommitHash(c, repoDir) ==
    LET c1 == Step(c, "revparse")
        d == Resolve(c.fs, repoDir)
    IN  IF Hit(c) \/ ~HasGitConfig(c.fs, repoDir) THEN R(c1, FALSE, <<>>)
        ELSE IF c.fs[d].head = 0 THEN R(c1, FALSE, <<>>)
        ELSE R(c1, TRUE, Hash(c.fs[d].origin, c.fs[d].head))

\* saveProjectConfig
saveProjectConfig(c, config) ==
    IF Hit(c) THEN R(Step(c, "writeManifest"), FALSE, <<>>)
    ELSE R([Step(c, "writeManifest") EXCEPT !.mf = config], TRUE, <<>>)

\* saveLockfile
saveLockfile(c, packages) ==
    IF Hit(c) THEN R(Step(c, "writeLock"), FALSE, <<>>)
    ELSE R([Step(c, "writeLock") EXCEPT !.lf = SavedLockfile(packages)], TRUE, <<>>)

\* cd dir && git fetch && git checkout what   (one shell line)
GitFetchCheckout(c, dir, what) ==
    LET f == GitFetch(c, dir)
    IN  IF ~f.ok THEN f ELSE GitCheckout(f.c, dir, what)

\* "await r; await getCommitHash(dir)": the hash, unless r has thrown
AndThenHash(r, dir) == IF ~r.ok THEN r ELSE getCommitHash(r.c, dir)

\* "await r; await git checkout what": unless r has thrown
AndThenCheckout(r, dir, what) == IF ~r.ok THEN r ELSE GitCheckout(r.c, dir, what)

\* cloneAtCommit(url, targetDir, commit)
cloneAtCommit(c, url, targetDir, commit) ==
    AndThenCheckout(GitClone(c, url, targetDir, HEAD_REF, FALSE), targetDir, commit)

\* cloneAtRef(url, targetDir, ref): the commit hash of the clone
cloneAtRef(c, url, targetDir, ref) ==
    AndThenHash(GitClone(c, url, targetDir, ref, TRUE), targetDir)

(***************************************************************************)
(* installPackages(frozen)                                                  *)
(***************************************************************************)

\* a command's outcome: the context it leaves, and the error it threw ("" : none)
\* failed: the packages whose fetch failed; got: the packages it materialized
Done(c) == [c |-> c, err |-> "", who |-> <<>>, failed |-> {}, got |-> {}]
Thrown(c, err, who) == [c |-> c, err |-> err, who |-> who, failed |-> {}, got |-> {}]

\* the outcome of a loop over packages that ended in state st
Logged(out, st) == [out EXCEPT !.failed = st.failed, !.got = st.got]

\* the outcome of a single fetch for package name
FetchThrown(c, name) ==
    [c |-> c, err |-> "FetchFailed", who |-> name, failed |-> {name}, got |-> {}]
Got(out, name) == [out EXCEPT !.got = IF out.err = "" THEN {name} ELSE {}]

\* the outcome of a command that ends with a file write w
Written(w, who) == IF w.ok THEN Done(w.c) ELSE Thrown(w.c, "WriteFailed", who)

\* the first key of an ordered map that lies in a set
FirstIn(keys, set) ==
    keys[CHOOSE i \in 1..Len(keys) : keys[i] \in set /\ \A j \in 1..(i - 1) : keys[j] \notin set]

\* the frozen precondition: the declared names without a lock entry
Unlocked(allDeps, packages) ==
    {n \in KeySet(allDeps) : getLockfileEntry(packages, n) = NoEntry}

\* The loop state st = [c, lock, coll, changed, thrown, failed, got]: context,
\* lockfile and collections in memory, lockfileChanged, whether an exception left
\* the loop, the packages reported as failed and the packages fetched.
\* st after a call with result r
WithC(st, r) == [st EXCEPT !.c = r.c]

\* st after the call with result r threw and the catch block logged the failure
Caught(st, r, name) == [st EXCEPT !.c = r.c, !.failed = @ \cup {name}]

\* line 432: co is the result of git fetch && git checkout, outside the try block
Healed(st, name, co) ==
    IF co.ok THEN WithC(st, co)
    ELSE [st EXCEPT !.c = co.c, !.thrown = TRUE, !.failed = @ \cup {name}]

\* a drift check that only warns
HealDrift_WarnOnly(st, name, commit, cur) ==
    IF ~cur.ok THEN [st EXCEPT !.c = cur.c, !.thrown = TRUE, !.failed = @ \cup {name}]
    ELSE WithC(st, cur)

\* lines 427-435: cur is the result of getCommitHash(packageDir)
HealDrift(st, name, commit, cur) ==
    IF ~cur.ok THEN [st EXCEPT !.c = cur.c, !.thrown = TRUE, !.failed = @ \cup {name}]
    ELSE IF cur.val = commit THEN WithC(st, cur)
    ELSE Healed(st, name, GitFetchCheckout(cur.c, PackageDir(name), commit))

\* an install that fetches and checks out the pin of every package it finds on disk
InstallExisting_Refetch(st, name, frozen) ==
    IF getLockfileEntry(st.lock, name).commit = <<>> THEN st
    ELSE Healed(st, name, GitFetchCheckout(st.c, PackageDir(name),
                                           getLockfileEntry(st.lock, name).commit))

\* lines 422-441: the loop body for a package whose .git/config exists
InstallExisting(st, name, frozen) ==
    IF ~frozen \/ getLockfileEntry(st.lock, name).commit = <<>> THEN st
    ELSE HealDrift(st, name, getLockfileEntry(st.lock, name).commit,
                   getCommitHash(st.c, PackageDir(name)))

\* the result of a fetch inside the try block: the loop state and whether it went through
Fetched(st, r) == [st |-> WithC(st, r), ok |-> r.ok]

\* a lock entry recorded before the fetch is known to have succeeded
RecordPin_Eager(st, name, spec, source, h) ==
    [st |-> [st EXCEPT !.c = h.c,
                       !.lock = setLockfileEntry(st.lock, name,
                                   [specifier |-> spec, resolved |-> source.url,
                                    commit |-> h.val]),
                       !.changed = TRUE],
     ok |-> h.ok]

\* lines 461-467 and 471-477: h is the commit hash read after the clone
RecordPin(st, name, spec, source, h) ==
    IF ~h.ok THEN Fetched(st, h)
    ELSE [st |-> [st EXCEPT !.c = h.c,
                            !.lock = setLockfileEntry(st.lock, name,
                                        [specifier |-> spec, resolved |-> source.url,
                                         commit |-> h.val]),
                            !.changed = TRUE],
          ok |-> TRUE]

\* a fetch that never consults the lock entry
InstallGit_Unpinned(st, name, spec, source) ==
    RecordPin(st, name, spec, source,
              AndThenHash(GitClone(st.c, source.url, PackageDir(name), HEAD_REF, TRUE),
                          PackageDir(name)))

\* lines 452-480: the fetch of a github or git source
InstallGit(st, name, spec, source) ==
    IF getLockfileEntry(st.lock, name).commit # <<>> THEN
        Fetched(st, cloneAtCommit(st.c, source.url, getLockfileEntry(st.lock, name).commit,
                                  PackageDir(name)))
    ELSE IF source.ref # <<>> THEN
        RecordPin(st, name, spec, source,
                  AndThenHash(cloneAtRef(st.c, source.url, source.ref, PackageDir(name)),
                              PackageDir(name)))
    ELSE
        RecordPin(st, name, spec, source,
                  AndThenHash(GitClone(st.c, source.url, PackageDir(name), HEAD_REF, TRUE),
                              PackageDir(name)))

\* lines 487-489: collections[name] = packageDir, when the fetch did not throw
Collect(name, fetched) ==
    IF ~fetched.ok THEN [fetched.st EXCEPT !.failed = @ \cup {name}]
    ELSE [fetched.st EXCEPT !.coll = Put(@, name, PackageDir(name)), !.got = @ \cup {name}]

\* lines 447-485: md is the result of mkdir -p
InstallFetch(st, name, spec, source, md) ==
    IF ~md.ok THEN Caught(st, md, name)
    ELSE IF source.type = "local" THEN
        Collect(name, Fetched(st, LnS(md.c, source.url, PackageDir(name))))
    ELSE Collect(name, InstallGit(WithC(st, md), name, spec, source))

\* lines 443-494: the try block for a package without .git/config;
\* a failure is caught and logged, the loop goes on
InstallMissing(st, name, spec, source) ==
    IF ~source.ok THEN [st EXCEPT !.failed = @ \cup {name}]
    ELSE InstallFetch(st, name, spec, source, Mkdir(st.c))

\* one iteration of the loop of lines 418-495
InstallOne(st, name, spec, frozen) ==
    IF HasGitConfig(st.c.fs, PackageDir(name)) THEN InstallExisting(st, name, frozen)
    ELSE InstallMissing(st, name, spec, parsePackageSpec(spec))

RECURSIVE InstallLoop(_, _, _)
InstallLoop(st, deps, frozen) ==
    IF deps = <<>> \/ st.thrown THEN st
    ELSE InstallLoop(InstallOne(st, Head(deps).k, Head(deps).v, frozen), Tail(deps), frozen)

\* lines 500-503: w is the result of saveProjectConfig
InstallSaveLock(st, w) ==
    IF ~w.ok THEN Thrown(w.c, "WriteFailed", <<>>)
    ELSE IF ~st.changed THEN Done(w.c)
    ELSE Written(saveLockfile(w.c, st.lock), <<>>)

\* lines 497-505: after the loop
InstallSave(config, st) ==
    IF st.thrown THEN Logged(Thrown(st.c, "FetchFailed", <<>>), st)
    ELSE Logged(InstallSaveLock(st, saveProjectConfig(st.c,
                    [config EXCEPT !.collections = st.coll])), st)

\* an install without the frozen precondition
InstallChecked_NoPrecheck(c, frozen, allDeps, packages) ==
    IF allDeps = <<>> THEN Done(c)
    ELSE InstallSave(c.mf, InstallLoop([c |-> c, lock |-> packages, coll |-> c.mf.collections,
                                        changed |-> FALSE, thrown |-> FALSE, failed |-> {},
                                        got |-> {}], allDeps, frozen))

\* lines 390-416, with the dependencies and the lockfile loaded
InstallChecked(c, frozen, allDeps, packages) ==
    IF allDeps = <<>> THEN Done(c)
    ELSE IF frozen /\ Unlocked(allDeps, packages) # {} THEN
        Thrown(c, "LockfileIncomplete", FirstIn(Keys(allDeps), Unlocked(allDeps, packages)))
    ELSE InstallSave(c.mf, InstallLoop([c |-> c, lock |-> packages, coll |-> c.mf.collections,
                                        changed |-> FALSE, thrown |-> FALSE, failed |-> {},
                                        got |-> {}], allDeps, frozen))

installPackages(c, frozen) ==
    InstallChecked(c, frozen, Spread(c.mf.dependencies, c.mf.devDependencies),
                   loadLockfile(c.lf))

(***************************************************************************)
(* updatePackage(name?, dryRun)                                             *)
(***************************************************************************)

\* git log --oneline old..FETCH_HEAD
GitLog(c) == R(Step(c, "log"), ~Hit(c), <<>>)

\* lines 322-340: fh is the result of git rev-parse FETCH_HEAD, the tip of the
\* tracked ref of the remote.   st = [c, lock, changed, failed, got]
DryCompare(st, pkgName, old, fh) ==
    IF ~fh.ok THEN Caught(st, fh, pkgName)
    ELSE IF old.val = fh.val THEN WithC(st, fh)
    ELSE IF ~GitLog(fh.c).ok THEN Caught(st, GitLog(fh.c), pkgName)
    ELSE [st EXCEPT !.c = GitLog(fh.c).c, !.changed = TRUE]

\* cd dir && git rev-parse FETCH_HEAD, after the fetch f
FetchHead(f, dir) ==
    IF ~f.ok THEN f
    ELSE IF Hit(f.c) THEN R(Step(f.c, "revparse"), FALSE, <<>>)
    ELSE R(Step(f.c, "revparse"), TRUE,
           Hash(f.c.fs[Resolve(f.c.fs, dir)].origin,
                RefRev(f.c.fs[Resolve(f.c.fs, dir)].origin, f.c.fs[Resolve(f.c.fs, dir)].ref)))

\* an update that never rewrites the lock entry
Repin_Never(st, pkgName, spec, old, new, existingEntry) ==
    IF ~new.ok THEN Caught(st, new, pkgName) ELSE WithC(st, new)

\* lines 346-362: new is the result of getCommitHash after the pull
Repin(st, pkgName, spec, old, new, existingEntry) ==
    IF ~new.ok THEN Caught(st, new, pkgName)
    ELSE IF old.val = new.val THEN WithC(st, new)
    ELSE [st EXCEPT !.c = new.c,
                    !.lock = setLockfileEntry(st.lock, pkgName,
                                [specifier |-> IF spec # <<>> THEN spec
                                               ELSE IF existingEntry.specifier # <<>>
                                                    THEN existingEntry.specifier
                                                    ELSE pkgName,
                                 resolved |-> existingEntry.resolved,
                                 commit |-> new.val]),
                    !.changed = TRUE]

\* a dry run that pulls like a real update
UpdateTry_DryPulls(st, pkgName, spec, dryRun, old) ==
    IF ~old.ok THEN Caught(st, old, pkgName)
    ELSE Repin(st, pkgName, spec, old,
               AndThenHash(GitPull(old.c, PackageDir(pkgName)), PackageDir(pkgName)),
               getLockfileEntry(st.lock, pkgName))

\* lines 311-363: old is the result of getCommitHash(packageDir)
UpdateTry(st, pkgName, spec, dryRun, old) ==
    IF ~old.ok THEN Caught(st, old, pkgName)
    ELSE IF dryRun THEN
        DryCompare(st, pkgName, old, FetchHead(GitFetch(old.c, PackageDir(pkgName)), PackageDir(pkgName)))
    ELSE Repin(st, pkgName, spec, old,
               AndThenHash(GitPull(old.c, PackageDir(pkgName)), PackageDir(pkgName)),
               getLockfileEntry(st.lock, pkgName))

\* one iteration of the loop of lines 298-368
UpdateOne(st, pkgName, spec, dryRun) ==
    IF ~HasGitConfig(st.c.fs, PackageDir(pkgName)) THEN st
    ELSE UpdateTry(st, pkgName, spec, dryRun, getCommitHash(st.c, PackageDir(pkgName)))

RECURSIVE UpdateLoop(_, _, _)
UpdateLoop(st, deps, dryRun) ==
    IF deps = <<>> THEN st
    ELSE UpdateLoop(UpdateOne(st, Head(deps).k, Head(deps).v, dryRun), Tail(deps), dryRun)

\* an update that saves the lockfile whether or not an entry changed
UpdateSave_Always(st, dryRun) ==
    IF dryRun THEN Logged(Done(st.c), st)
    ELSE Logged(Written(saveLockfile(st.c, st.lock), <<>>), st)

\* lines 370-379: after the loop
UpdateSave(st, dryRun) ==
    IF dryRun \/ ~st.changed THEN Logged(Done(st.c), st)
    ELSE Logged(Written(saveLockfile(st.c, st.lock), <<>>), st)

\* lines 286-296, with the dependencies loaded
UpdateSelected(c, dryRun, packagesToUpdate) ==
    IF packagesToUpdate = <<>> THEN Done(c)
    ELSE UpdateSave(UpdateLoop([c |-> c, lock |-> loadLockfile(c.lf), changed |-> FALSE,
                                failed |-> {}, got |-> {}],
                               packagesToUpdate, dryRun), dryRun)

\* { [name]: allDeps[name] }, or allDeps when no name is given (name = <<>>)
PackagesToUpdate(allDeps, name) ==
    IF name = <<>> THEN allDeps
    ELSE <<[k |-> name, v |-> IF Has(allDeps, name) THEN Get(allDeps, name) ELSE <<>>]>>

updatePackage(c, name, dryRun) ==
    UpdateSelected(c, dryRun,
        PackagesToUpdate(Spread(c.mf.dependencies, c.mf.devDependencies), name))

(***************************************************************************)
(* addPackage(spec, isDev)                                                  *)
(***************************************************************************)

\* an add that files every dependency under dependencies
AddedConfig_NeverDev(config, spec, isDev, name) ==
    [config EXCEPT !.dependencies = Put(@, name, spec),
                   !.collections = Put(@, name, PackageDir(name))]

\* lines 187-199: the manifest with the new dependency and its collection
AddedConfig(config, spec, isDev, name) ==
    [config EXCEPT !.dependencies = IF isDev THEN @ ELSE Put(@, name, spec),
                   !.devDependencies = IF isDev THEN Put(@, name, spec) ELSE @,
                   !.collections = Put(@, name, PackageDir(name))]

\* lines 187-201: lw is the result of saveLockfile
AddManifest(spec, isDev, name, lw) ==
    IF ~lw.ok THEN Thrown(lw.c, "WriteFailed", name)
    ELSE Written(saveProjectConfig(lw.c, AddedConfig(lw.c.mf, spec, isDev, name)), name)

\* lines 176-201: got is the result of the fetch, its value the commit
AddRecord(spec, isDev, source, got) ==
    IF ~got.ok THEN FetchThrown(got.c, source.name)
    ELSE Got(AddManifest(spec, isDev, source.name,
            saveLockfile(got.c, setLockfileEntry(loadLockfile(got.c.lf), source.name,
                [specifier |-> spec, resolved |-> source.url, commit |-> got.val]))),
             source.name)

\* ln -s, and commit = "local"
LinkLocal(c, source) ==
    [LnS(c, source.url, PackageDir(source.name)) EXCEPT !.val = LOCAL_COMMIT]

\* lines 158-174: md is the result of mkdir -p
AddFetch(spec, isDev, source, md) ==
    IF ~md.ok THEN FetchThrown(md.c, source.name)
    ELSE IF source.type = "local" THEN AddRecord(spec, isDev, source, LinkLocal(md.c, source))
    ELSE AddRecord(spec, isDev, source,
                   cloneAtRef(md.c, source.url, PackageDir(source.name), source.ref))

\* lines 142-156, with the specifier parsed
AddParsed(c, spec, isDev, source) ==
    IF ~source.ok THEN Thrown(c, "InvalidSpecifier", <<>>)
    ELSE IF HasGitConfig(c.fs, PackageDir(source.name)) THEN updatePackage(c, source.name, FALSE)
    ELSE AddFetch(spec, isDev, source, Mkdir(c))

addPackage(c, spec, isDev) == AddParsed(c, spec, isDev, parsePackageSpec(spec))

(***************************************************************************)
(* removePackage(name)                                                      *)
(***************************************************************************)

\* a remove that writes a manifest made of the three maps only
RemovedConfig_MapsOnly(config, name) ==
    [dependencies |-> Del(config.dependencies, name),
     devDependencies |-> Del(config.devDependencies, name),
     collections |-> Del(config.collections, name),
     other |-> <<>>]

\* lines 249-257
RemovedConfig(config, name) ==
    [config EXCEPT !.dependencies = Del(@, name),
                   !.devDependencies = Del(@, name),
                   !.collections = Del(@, name)]

\* lines 261-264: mw is the result of saveProjectConfig
RemoveLock(name, mw) ==
    IF ~mw.ok THEN Thrown(mw.c, "WriteFailed", name)
    ELSE Written(saveLockfile(mw.c, removeLockfileEntry(loadLockfile(mw.c.lf), name)), name)

\* lines 246-259: rm is the result of rm -rf
RemoveConfig(name, rm) ==
    IF ~rm.ok THEN Thrown(rm.c, "RemoveFailed", name)
    ELSE RemoveLock(name, saveProjectConfig(rm.c, RemovedConfig(rm.c.mf, name)))

\* lines 233-246: lnk is the result of test -L, run when there is no .git/config
RemoveChecked(c, name, lnk) ==
    IF HasGitConfig(c.fs, PackageDir(name)) THEN RemoveConfig(name, RmRf(c, PackageDir(name)))
    ELSE IF ~lnk.ok THEN Thrown(lnk.c, "PackageNotInstalled", name)
    ELSE RemoveConfig(name, RmRf(lnk.c, PackageDir(name)))

removePackage(c, name) == RemoveChecked(c, name, TestL(c, PackageDir(name)))

(***************************************************************************)
(* listPackages()                                                           *)
(***************************************************************************)

\* the lines printed for one of the two maps: name, specifier, and the mark
\* (installed: odin_packages/<name>/.git/config exists)
ListLines(deps, f) ==
    [i \in 1..Len(deps) |->
        [name |-> deps[i].k, spec |-> deps[i].v,
         installed |-> HasGitConfig(f, PackageDir(deps[i].k))]]

\* listPackages: reads the manifest and the disk, prints, changes nothing
listPackages(m, f) ==
    [deps |-> ListLines(m.dependencies, f), devDeps |-> ListLines(m.devDependencies, f)]

(***************************************************************************)
(* main(): the command line                                                 *)
(***************************************************************************)

\* args[i], or undefined (the empty string) when there is none
Arg(args, i) == IF i <= Len(args) THEN args[i] ELSE UNDEFINED

\* main: the command args[0] run on the arguments that follow it; the commands
\* that do not touch the packages leave the project as it is.
\* case "install": packages are installed when no argument is given or the
\* argument looks like a flag or a package; otherwise a compiler version is
\* installed, which leaves the project as it is.
\* case "add": [-D | --dev] <pkg>
main(c, args) ==
    IF Arg(args, 1) = <<"i","n","s","t","a","l","l">> THEN
        IF Len(args) = 1 THEN installPackages(c, FALSE)
        ELSE IF args[2] # <<>> /\ (StartsWith(args[2], <<"-">>) \/ Includes(args[2], "/"))
        THEN installPackages(c, FALSE)
        ELSE IF args[2] # <<>> THEN Done(c)
        ELSE Thrown(c, "Usage", <<>>)
    ELSE IF Arg(args, 1) = <<"i">> THEN installPackages(c, FALSE)
    ELSE IF Arg(args, 1) = <<"a","d","d">> THEN
        IF Arg(args, 2) \in {<<"-","D">>, <<"-","-","d","e","v">>}
        THEN IF Arg(args, 3) = <<>> THEN Thrown(c, "Usage", <<>>)
             ELSE addPackage(c, args[3], TRUE)
        ELSE IF Arg(args, 2) = <<>> THEN Thrown(c, "Usage", <<>>)
             ELSE addPackage(c, args[2], FALSE)
    ELSE IF Arg(args, 1) \in {<<"r","e","m","o","v","e">>, <<"r","m">>} THEN
        IF Arg(args, 2) = <<>> THEN Thrown(c, "Usage", <<>>)
        ELSE removePackage(c, args[2])
    ELSE IF Arg(args, 1) \in {<<"u","p","d","a","t","e">>, <<"u","p","g","r","a","d","e">>}
    THEN updatePackage(c, Arg(args, 2), FALSE)
    ELSE Done(c)

\* the exit code of the process: 1 when main caught an error (or refused the
\* arguments), 0 when the command returned
ExitCode(err) == IF err = "" THEN 0 ELSE 1

(***************************************************************************)
(* The state machine: one action per command, and the events of the world   *)
(***************************************************************************)

\* the context a command starts in
Ctx(fault, kill) ==
    [fs |-> fs, mf |-> manifest, lf |-> lockfile, n |-> 0, fault |-> fault, kill |-> kill,
     calls |-> {}, log |-> <<>>]

\* a command has run and left outcome out
Finish(op, arg, flag, out) ==
    /\ manifest' = out.c.mf
    /\ lockfile' = out.c.lf
    /\ fs' = out.c.fs
    /\ remote' = remote
    /\ last' = [op |-> op, arg |-> arg, flag |-> flag, err |-> out.err, who |-> out.who,
                calls |-> out.c.calls, failed |-> out.failed,
                faulted |-> out.c.fault # 0 /\ out.c.fault <= out.c.n]
    /\ hist' = [hist EXCEPT !.installed =
                    IF op = "remove" /\ out.err = "" THEN @ \ {arg}
                    ELSE IF out.err = "" THEN @ \cup out.got
                    ELSE @]
    /\ ops' = ops + 1
    /\ faults' = IF out.c.fault # 0 /\ out.c.fault <= out.c.n THEN faults + 1 ELSE faults
    /\ store' = store
    /\ parsed' = parsed
    /\ toolchain' = toolchain

\* an event of the world has happened
Event(op, arg) ==
    /\ last' = [op |-> op, arg |-> arg, flag |-> FALSE, err |-> "", who |-> <<>>,
                calls |-> {}, failed |-> {}, faulted |-> FALSE]
    /\ hist' = [hist EXCEPT !.drifted = @ \/ op = "drift"]
    /\ ops' = ops + 1
    /\ faults' = faults
    /\ store' = store
    /\ parsed' = parsed
    /\ toolchain' = toolchain

\* a failing clone may die half-way; out is the run of the command without a failure
Kills(fault, out) ==
    IF fault # 0 /\ out.c.log[fault] \in {"clone", "cloneNoCheckout"} THEN BOOLEAN
    ELSE {FALSE}

\* the calls of a command that may fail in this run; out is its run without a failure
Faults(out) == IF faults < MaxFaults THEN 0..out.c.n ELSE {0}

\* the members of opm.json other than the three maps of the packages, as opm init
\* writes them, and a member opm does not know
OtherFields ==
    <<[k |-> "$schema", v |-> "opm.schema.json"], [k |-> "name", v |-> "app"],
      [k |-> "version", v |-> "0.1.0"], [k |-> "description", v |-> ""],
      [k |-> "author", v |-> ""], [k |-> "license", v |-> "MIT"],
      [k |-> "odinVersion", v |-> "dev"], [k |-> "scripts", v |-> ""],
      [k |-> "build", v |-> "src bin"], [k |-> "x-unknown", v |-> "kept"]>>

\* opm init: an empty manifest, no lockfile, no packages; the remotes exist
InitManifest ==
    [dependencies |-> <<>>, devDependencies |-> <<>>, collections |-> <<>>, other |-> OtherFields]
InitLockfile == [exists |-> FALSE, version |-> LOCK_VERSION, packages |-> <<>>]
InitRemote ==
    [u \in GitUrls |->
        [r \in RefNames |->
            IF r = HEAD_REF THEN 2
            ELSE IF \E s \in SpecPool : parsePackageSpec(s).url = u /\ parsePackageSpec(s).ref = r
                 THEN 1 ELSE 0]]

Init ==
    /\ manifest = InitManifest
    /\ lockfile = InitLockfile
    /\ fs = [p \in LocalPaths |-> PlainDir]
    /\ remote = InitRemote
    /\ last = [op |-> "init", arg |-> <<>>, flag |-> FALSE, err |-> "", who |-> <<>>,
               calls |-> {}, failed |-> {}, faulted |-> FALSE]
    /\ hist = [installed |-> {}, drifted |-> FALSE]
    /\ ops = 0
    /\ faults = 0
    /\ store = NoStore
    /\ parsed = NoParse
    /\ toolchain = NoToolchain

\* opm add <spec> [--dev]
Add ==
    /\ ops < MaxOps
    /\ \E spec \in SpecPool, isDev \in BOOLEAN :
        LET clean == addPackage(Ctx(0, FALSE), spec, isDev)
        IN  \E fault \in Faults(clean) :
                \E kill \in Kills(fault, clean) :
                    Finish("add", spec, isDev, addPackage(Ctx(fault, kill), spec, isDev))

\* opm remove <name>
Remove ==
    /\ ops < MaxOps
    /\ \E name \in Names :
        LET clean == removePackage(Ctx(0, FALSE), name)
        IN  \E fault \in Faults(clean) :
                \E kill \in Kills(fault, clean) :
                    Finish("remove", name, FALSE, removePackage(Ctx(fault, kill), name))

\* updatePackage(name?, dryRun)
Update ==
    /\ ops < MaxOps
    /\ \E name \in Names \cup {<<>>}, dryRun \in BOOLEAN :
        LET clean == updatePackage(Ctx(0, FALSE), name, dryRun)
        IN  \E fault \in Faults(clean) :
                \E kill \in Kills(fault, clean) :
                    Finish("update", name, dryRun, updatePackage(Ctx(fault, kill), name, dryRun))

\* installPackages(frozen)
Install ==
    /\ ops < MaxOps
    /\ \E frozen \in BOOLEAN :
        LET clean == installPackages(Ctx(0, FALSE), frozen)
        IN  \E fault \in Faults(clean) :
                \E kill \in Kills(fault, clean) :
                    Finish("install", <<>>, frozen, installPackages(Ctx(fault, kill), frozen))

\* the user declares a dependency by editing opm.json
Declare ==
    /\ ops < MaxOps
    /\ \E spec \in SpecPool, isDev \in BOOLEAN :
        LET name == parsePackageSpec(spec).name
        IN  /\ ~Has(manifest.dependencies, name)
            /\ ~Has(manifest.devDependencies, name)
            /\ manifest' = IF isDev
                           THEN [manifest EXCEPT !.devDependencies = Put(@, name, spec)]
                           ELSE [manifest EXCEPT !.dependencies = Put(@, name, spec)]
            /\ Event("declare", spec)
    /\ UNCHANGED <<lockfile, fs, remote>>

\* a new commit is pushed to a ref of a remote
Push ==
    /\ ops < MaxOps
    /\ \E u \in GitUrls, r \in RefNames :
        LET top == CHOOSE m \in 0..MaxRev :
                       /\ \E q \in RefNames : remote[u][q] = m
                       /\ \A q \in RefNames : remote[u][q] <= m
        IN  /\ remote[u][r] > 0
            /\ top < MaxRev
            /\ remote' = [remote EXCEPT ![u][r] = top + 1]
            /\ Event("push", u)
    /\ UNCHANGED <<manifest, lockfile, fs>>

\* a fresh checkout of the project: opm.json and opm.lock, no odin_packages
Wipe ==
    /\ ops < MaxOps
    /\ \E n \in Names : PackageDir(n) \in DOMAIN fs
    /\ fs' = [p \in (DOMAIN fs) \ {PackageDir(n) : n \in Names} |-> fs[p]]
    /\ Event("wipe", <<>>)
    /\ UNCHANGED <<manifest, lockfile, remote>>

\* the user moves a working copy to another revision of its origin by hand
\* (git fetch --deepen, git checkout or git reset)
Drift ==
    /\ ops < MaxOps
    /\ \E n \in Names, rev \in 1..MaxRev, detached \in BOOLEAN :
        LET dir == PackageDir(n)
        IN  /\ dir \in DOMAIN fs
            /\ fs[dir].kind = "git"
            /\ fs[dir].head > 0
            /\ rev # fs[dir].head
            /\ \E q \in RefNames : rev <= RefRev(fs[dir].origin, q)
            /\ fs' = FsPut(fs, dir, [fs[dir] EXCEPT !.head = rev, !.detached = detached,
                                                    !.base = IF rev < @ THEN rev ELSE @])
            /\ Event("drift", n)
    /\ UNCHANGED <<manifest, lockfile, remote>>

Next == Add \/ Remove \/ Update \/ Install \/ Declare \/ Push \/ Wipe \/ Drift

Spec == Init /\ [][Next]_vars

\* the project left by a first command whose outcome is out
Began(spec, out) ==
    /\ manifest = out.c.mf
    /\ lockfile = out.c.lf
    /\ fs = out.c.fs
    /\ last = [op |-> "add", arg |-> spec, flag |-> FALSE, err |-> out.err, who |-> out.who,
               calls |-> out.c.calls, failed |-> {}, faulted |-> FALSE]
    /\ hist = [installed |-> out.got, drifted |-> FALSE]

\* a project in which `opm add a/w` has just run, as the first command of a fresh
\* project
InitAdded ==
    /\ remote = InitRemote
    /\ Began(SpecPlain,
             addPackage([fs |-> [p \in LocalPaths |-> PlainDir], mf |-> InitManifest,
                         lf |-> InitLockfile, n |-> 0, fault |-> 0, kill |-> FALSE,
                         calls |-> {}, log |-> <<>>],
                        SpecPlain, FALSE))
    /\ ops = 0
    /\ faults = 0
    /\ store = NoStore
    /\ parsed = NoParse
    /\ toolchain = NoToolchain

\* the commands and events that follow a first add
SpecAdded == InitAdded /\ [][Next]_vars

\* opm init in a place where the directory a path: specifier points at is itself
\* a git working copy: a full clone of the first remote, one commit behind its
\* default branch
InitLinked ==
    /\ manifest = InitManifest
    /\ lockfile = InitLockfile
    /\ fs = [p \in LocalPaths |-> GitDir(parsePackageSpec(SpecPlain).url, 1, HEAD_REF, FALSE, 1)]
    /\ remote = InitRemote
    /\ last = [op |-> "init", arg |-> <<>>, flag |-> FALSE, err |-> "", who |-> <<>>,
               calls |-> {}, failed |-> {}, faulted |-> FALSE]
    /\ hist = [installed |-> {}, drifted |-> FALSE]
    /\ ops = 0
    /\ faults = 0
    /\ store = NoStore
    /\ parsed = NoParse
    /\ toolchain = NoToolchain

\* the commands and events of a project next to a local git working copy
SpecLinked == InitLinked /\ [][Next]_vars

(***************************************************************************)
(* The lockfile store on its own: a command loads opm.lock, sets and removes  *)
(* entries and saves, while another process reads the file                  *)
(***************************************************************************)

MaxStoreOps == 6
MaxStoreRev == 2

\* specifiers whose names are integer indices, and one whose name is not
StoreSpecs == {<<"a","/","9">>, <<"a","/","1","0">>, <<"a","/","b">>}

\* a step of the store
StoreStep(op, arg, err) ==
    /\ last' = [op |-> op, arg |-> arg, flag |-> FALSE, err |-> err, who |-> <<>>,
                calls |-> {}, failed |-> {}, faulted |-> FALSE]
    /\ ops' = ops + 1
    /\ UNCHANGED <<manifest, lockfile, fs, remote, hist, faults, parsed, toolchain>>

\* a load that leaves the default lockfile on disk
StoreLoaded_Creates(st) ==
    IF ~st.file.exists
    THEN [st EXCEPT !.held = TRUE, !.obj = LoadedLockfile(st.file).val,
                    !.file = [exists |-> TRUE, text |-> LockText(LoadedLockfile(st.file).val)]]
    ELSE IF LoadedLockfile(st.file).ok
    THEN [st EXCEPT !.held = TRUE, !.obj = LoadedLockfile(st.file).val]
    ELSE st

\* loadLockfile: the store after the load (unchanged when file.json() throws)
StoreLoaded(st) ==
    IF LoadedLockfile(st.file).ok
    THEN [st EXCEPT !.held = TRUE, !.obj = LoadedLockfile(st.file).val]
    ELSE st

\* const lockfile = await loadLockfile()
StoreLoad ==
    /\ ops < MaxStoreOps
    /\ store.pc = "idle"
    /\ store' = StoreLoaded(store)
    /\ StoreStep("load", <<>>, IF LoadedLockfile(store.file).ok THEN "" ELSE "ParseFailed")

\* setLockfileEntry(lockfile, name, entry)
StoreSet ==
    /\ ops < MaxStoreOps
    /\ store.pc = "idle" /\ store.held
    /\ \E spec \in StoreSpecs, rev \in 1..MaxStoreRev :
        /\ store' = [store EXCEPT !.obj.packages =
                        setLockfileEntry(@, parsePackageSpec(spec).name,
                            [specifier |-> spec, resolved |-> parsePackageSpec(spec).url,
                             commit |-> <<"c", Digit(rev)>>])]
        /\ StoreStep("set", parsePackageSpec(spec).name, "")

\* removeLockfileEntry(lockfile, name)
StoreUnset ==
    /\ ops < MaxStoreOps
    /\ store.pc = "idle" /\ store.held
    /\ \E spec \in StoreSpecs :
        /\ Has(store.obj.packages, parsePackageSpec(spec).name)
        /\ store' = [store EXCEPT !.obj.packages =
                        removeLockfileEntry(@, parsePackageSpec(spec).name)]
        /\ StoreStep("unset", parsePackageSpec(spec).name, "")

\* saveLockfile up to the start of Bun.write: the packages are sorted, the text is
\* built, the file is opened for writing (created, or cut to length 0)
StoreSaveOpen ==
    /\ ops < MaxStoreOps
    /\ store.pc = "idle" /\ store.held
    /\ store' = [store EXCEPT !.obj = SortedLockfile(@),
                              !.pending = LockText(SortedLockfile(store.obj)),
                              !.old = store.file,
                              !.file = [exists |-> TRUE, text |-> <<>>],
                              !.pc = "writing"]
    /\ StoreStep("open", <<>>, "")

\* Bun.write goes on: some more of the text reaches the file; with the last line
\* saveLockfile returns
StoreSaveWrite ==
    /\ store.pc = "writing"
    /\ \E k \in (Len(store.file.text) + 1)..Len(store.pending) :
        /\ store' = [store EXCEPT !.file.text = SubSeq(store.pending, 1, k),
                                  !.pc = IF k = Len(store.pending) THEN "idle" ELSE "writing"]
        /\ StoreStep("write", <<>>, "")

\* another process reads opm.lock
StoreRead ==
    /\ ops < MaxStoreOps
    /\ store' = [store EXCEPT !.seen = store.file]
    /\ StoreStep("read", <<>>, IF LoadedLockfile(store.file).ok THEN "" ELSE "ParseFailed")

NextStore == StoreLoad \/ StoreSet \/ StoreUnset \/ StoreSaveOpen \/ StoreSaveWrite \/ StoreRead

\* the lockfile store, from a project without lockfile
SpecStore == Init /\ [][NextStore]_vars

(***************************************************************************)
(* parsePackageSpec on its own: a specifier is typed piece by piece after   *)
(* one of the prefixes, then parsed                                         *)
(***************************************************************************)

MaxPieces == 5

\* a step that leaves the project and its lockfile alone
Aside(op, arg, err) ==
    /\ last' = [op |-> op, arg |-> arg, flag |-> FALSE, err |-> err, who |-> <<>>,
                calls |-> {}, failed |-> {}, faulted |-> FALSE]
    /\ ops' = ops + 1
    /\ UNCHANGED <<manifest, lockfile, fs, remote, hist, faults, store>>

\* the user starts a specifier with one of the prefixes, or with none
Start ==
    /\ parsed.pc = "start"
    /\ \E prefix \in {<<>>, <<"g","i","t","h","u","b",":">>, <<"g","i","t",":">>,
                     <<"p","a","t","h",":">>} :
        /\ parsed' = [parsed EXCEPT !.text = prefix, !.pc = "typing"]
        /\ Aside("start", prefix, "")
    /\ toolchain' = toolchain

\* the user types one more piece: a character of a name, a slash, a tag, a branch
\* or the suffix of a repository
Type ==
    /\ parsed.pc = "typing"
    /\ parsed.pieces < MaxPieces
    /\ \E piece \in {<<"a">>, <<"-">>, <<"/">>, <<"@","v">>, <<"#","d">>,
                    <<".","g","i","t">>} :
        /\ parsed' = [parsed EXCEPT !.text = @ \o piece, !.pieces = @ + 1]
        /\ Aside("type", piece, "")
    /\ toolchain' = toolchain

\* parsePackageSpec(spec)
Parse ==
    /\ parsed.pc = "typing"
    /\ parsed' = [parsed EXCEPT !.pc = "parsed", !.out = parsePackageSpec(parsed.text)]
    /\ Aside("parse", parsed.text,
             IF parsePackageSpec(parsed.text).ok THEN "" ELSE "InvalidSpecifier")
    /\ toolchain' = toolchain

NextParse == Start \/ Type \/ Parse

\* every specifier of at most MaxPieces pieces, parsed
SpecParse == Init /\ [][NextParse]_vars

(***************************************************************************)
(* useVersion: the switch of the active compiler version, call by call,     *)
(* while another process reads the link ~/.opm/current                      *)
(***************************************************************************)

MaxUseOps == 7

\* useVersion(version) up to the update of the link: the version is not installed
\* and the call throws, or it is and the shell command comes next
UseCheck ==
    /\ ops < MaxUseOps
    /\ toolchain.pc = "idle"
    /\ \E version \in {"dev-1", "dev-2", "dev-3"} :
        /\ toolchain' = IF version \in toolchain.installed
                        THEN [toolchain EXCEPT !.pc = "rm", !.target = version, !.was = toolchain.link]
                        ELSE toolchain
        /\ Aside("use", version, IF version \in toolchain.installed THEN "" ELSE "NotInstalled")
    /\ parsed' = parsed

\* rm -f ${linkPath}
UseRm ==
    /\ toolchain.pc = "rm"
    /\ toolchain' = [toolchain EXCEPT !.link = "", !.pc = "ln"]
    /\ Aside("rm", toolchain.target, "")
    /\ parsed' = parsed

\* ln -s ${versionDir} ${linkPath}
UseLn ==
    /\ toolchain.pc = "ln"
    /\ toolchain' = [toolchain EXCEPT !.link = toolchain.target, !.pc = "config"]
    /\ Aside("ln", toolchain.target, "")
    /\ parsed' = parsed

\* config.currentVersion = version; saveGlobalConfig(config); useVersion returns
UseConfig ==
    /\ toolchain.pc = "config"
    /\ toolchain' = [toolchain EXCEPT !.config = toolchain.target, !.pc = "idle"]
    /\ Aside("config", toolchain.target, "")
    /\ parsed' = parsed

\* another process reads the link (readlink, or odin run through the PATH)
Observe ==
    /\ ops < MaxUseOps
    /\ toolchain' = [toolchain EXCEPT !.seen = toolchain.link]
    /\ Aside("observe", <<>>, IF toolchain.link = "" THEN "NoLink" ELSE "")
    /\ parsed' = parsed

NextUse == UseCheck \/ UseRm \/ UseLn \/ UseConfig \/ Observe

\* the version switches of a machine with two versions installed
SpecUse == Init /\ [][NextUse]_vars

(***************************************************************************)
(* Properties                                                               *)
(***************************************************************************)

\* the names the manifest declares, in dependencies or devDependencies
Declared(m) == KeySet(m.dependencies) \cup KeySet(m.devDependencies)

\* the declared specifier of a name (devDependencies win, as in the spread)
DeclaredSpec(m, n) ==
    IF Has(m.devDependencies, n) THEN Get(m.devDependencies, n) ELSE Get(m.dependencies, n)

\* the names with an entry in the lockfile on disk
LockedNames(lf) == IF lf.exists THEN KeySet(lf.packages) ELSE {}

\* the lock entry of a name on disk, NoEntry when there is none
LockEntry(lf, n) == IF n \in LockedNames(lf) THEN Get(lf.packages, n) ELSE NoEntry

\* a git working copy sits at odin_packages/<n>
IsGitCopy(f, n) == PackageDir(n) \in DOMAIN f /\ f[PackageDir(n)].kind = "git"

\* the commit a git working copy is checked out at
CopyHash(f, n) == Hash(f[PackageDir(n)].origin, f[PackageDir(n)].head)

\* n is declared with a github or git specifier
IsRemoteGit(m, n) ==
    n \in Declared(m) /\ parsePackageSpec(DeclaredSpec(m, n)).type \in {"github", "git"}

\* the calls that fetch: clones, checkouts, and link creation
FetchCalls == {"clone", "cloneNoCheckout", "checkout", "symlink", "fetch", "pull"}

\* C1: running install twice in a row with the manifest unchanged: the second run
\* leaves manifest, lockfile and working copies as the first run left them, fetches
\* nothing and does not write the lockfile (the first run having installed
\* everything without a failure).
C1_InstallTwiceIdentical ==
    [][(/\ last.op = "install" /\ last.err = "" /\ last.failed = {} /\ ~last.faulted
        /\ last'.op = "install" /\ ~last'.faulted)
       => (/\ manifest' = manifest
           /\ lockfile' = lockfile
           /\ fs' = fs
           /\ last'.calls \cap FetchCalls = {}
           /\ "writeLock" \notin last'.calls)]_vars

\* C2: a frozen install with a declared dependency that has no lock entry fails
\* with LockfileIncomplete naming such a dependency, before any call is made and
\* with manifest, lockfile and disk untouched.
C2_FrozenFailsFast ==
    [][(/\ last'.op = "install" /\ last'.flag
        /\ Declared(manifest) \ LockedNames(lockfile) # {})
       => (/\ last'.err = "LockfileIncomplete"
           /\ last'.who \in Declared(manifest) \ LockedNames(lockfile)
           /\ last'.calls = {}
           /\ manifest' = manifest
           /\ lockfile' = lockfile
           /\ fs' = fs)]_vars

\* a frozen install has been refused for a declared dependency without lock entry
C2_Witness ==
    /\ last.op = "install" /\ last.flag /\ last.err = "LockfileIncomplete"
    /\ last.who \in Declared(manifest) \ LockedNames(lockfile)

\* C3: an install in which no call fails gives every declared remote-git dependency
\* that has a pinned lock entry and no working copy a working copy at
\* odin_packages/<name>, checked out at the pinned commit, the lock entry unchanged.
C3_PinnedInstallMaterializes ==
    [][(last'.op = "install" /\ ~last'.faulted)
       => \A n \in Names :
            (/\ IsRemoteGit(manifest, n)
             /\ LockEntry(lockfile, n).commit # <<>>
             /\ PackageDir(n) \notin DOMAIN fs)
            => (/\ IsGitCopy(fs', n)
                /\ CopyHash(fs', n) = LockEntry(lockfile, n).commit
                /\ LockEntry(lockfile', n) = LockEntry(lockfile, n))]_vars

\* C4: an install (not frozen) in which no call fails gives every declared
\* remote-git dependency without lock entry and working copy, with or without a
\* ref hint, a working copy at the hinted ref (or the default branch) and a lock
\* entry {specifier: the declared string, resolved: the origin, commit: its revision}.
C4_UnpinnedInstallPins ==
    [][(last'.op = "install" /\ ~last'.flag /\ ~last'.faulted)
       => \A n \in Names :
            (/\ IsRemoteGit(manifest, n)
             /\ n \notin LockedNames(lockfile)
             /\ PackageDir(n) \notin DOMAIN fs)
            => LET spec == DeclaredSpec(manifest, n)
                   source == parsePackageSpec(spec)
               IN  /\ IsGitCopy(fs', n)
                   /\ fs'[PackageDir(n)].origin = source.url
                   /\ fs'[PackageDir(n)].head = RefRev(source.url, source.ref)
                   /\ LockEntry(lockfile', n) =
                        [specifier |-> spec, resolved |-> source.url,
                         commit |-> CopyHash(fs', n)]]_vars

\* C5: after a frozen install that ended without error, every declared package
\* that had a git working copy is at its lock entry's commit; a working copy that
\* was already there is left as it was.
C5_FrozenHealsDrift ==
    [][(last'.op = "install" /\ last'.flag /\ last'.err = "")
       => \A n \in Declared(manifest) :
            IsGitCopy(fs, n)
            => (/\ IsGitCopy(fs', n)
                /\ CopyHash(fs', n) = LockEntry(lockfile', n).commit
                /\ (CopyHash(fs, n) = LockEntry(lockfile, n).commit
                      => fs'[PackageDir(n)] = fs[PackageDir(n)]))]_vars

\* a frozen install has fetched and checked out the pinned commit in a working copy
C5_Witness ==
    /\ last.op = "install" /\ last.flag /\ last.err = ""
    /\ {"fetch", "checkout"} \subseteq last.calls
    /\ hist.drifted
    /\ \E n \in Declared(manifest) :
        IsGitCopy(fs, n) /\ CopyHash(fs, n) = LockEntry(lockfile, n).commit

\* C6: a frozen install makes no shallow clone of a ref (the ref-acquire fetch),
\* does not write the lockfile and leaves its content as it was.
C6_FrozenResolvesNothing ==
    [][(last'.op = "install" /\ last'.flag)
       => (/\ "clone" \notin last'.calls
           /\ "writeLock" \notin last'.calls
           /\ lockfile' = lockfile)]_vars

\* a frozen install passed the precondition and fetched a missing package by its pin
C6_Witness ==
    /\ last.op = "install" /\ last.flag /\ last.err = ""
    /\ "cloneNoCheckout" \in last.calls

\* C7: in add, install and update, a package whose fetch failed keeps the lock
\* entry it had; and a lock entry that is new or rewritten belongs to a package
\* whose working copy is materialized at that commit.
C7_LockOnlyAfterFetch ==
    [][last'.op \in {"add", "install", "update"}
       => \A d \in Names :
            /\ d \in last'.failed => LockEntry(lockfile', d) = LockEntry(lockfile, d)
            /\ LockEntry(lockfile', d) # LockEntry(lockfile, d)
                 => \/ IsGitCopy(fs', d) /\ CopyHash(fs', d) = LockEntry(lockfile', d).commit
                    \/ /\ PackageDir(d) \in DOMAIN fs' /\ fs'[PackageDir(d)].kind = "link"
                       /\ LockEntry(lockfile', d).commit = LOCAL_COMMIT]_vars

\* an update in which the fetch of a locked package failed
C7_Witness ==
    /\ last.op \in {"add", "install", "update"}
    /\ last.faulted
    /\ \E d \in last.failed : d \in LockedNames(lockfile)

\* C8: every declared name that was installed at least once (by add or install)
\* has a lock entry.
C8_InstalledHaveLockEntry ==
    \A n \in hist.installed \cap Declared(manifest) : n \in LockedNames(lockfile)

\* C9: as long as no call has failed and no working copy was moved by hand, every
\* git working copy with a lock entry is at the lock entry's commit, and every
\* working copy belongs to a declared name whose collections entry is
\* odin_packages/<name>.
C9_ThreeWayConsistent ==
    (faults = 0 /\ ~hist.drifted)
    => \A n \in Names :
        /\ (IsGitCopy(fs, n) /\ n \in LockedNames(lockfile))
             => LockEntry(lockfile, n).commit = CopyHash(fs, n)
        /\ PackageDir(n) \in DOMAIN fs
             => (/\ n \in Declared(manifest)
                 /\ Has(manifest.collections, n)
                 /\ Get(manifest.collections, n) = PackageDir(n))

\* an update has moved a working copy and rewritten its lock entry
C9_Witness ==
    /\ faults = 0 /\ ~hist.drifted
    /\ last.op = "update" /\ "writeLock" \in last.calls /\ last.err = ""
    /\ \E n \in Names : IsGitCopy(fs, n) /\ LockEntry(lockfile, n).commit = CopyHash(fs, n)

\* C10: a remove that fails leaves the package whole or gone: either nothing has
\* changed, or working copy, manifest entry, collections entry and lock entry are
\* all gone.
C10_RemoveAllOrNothing ==
    [][(last'.op = "remove" /\ last'.err # "")
       => \/ (fs' = fs /\ manifest' = manifest /\ lockfile' = lockfile)
          \/ /\ PackageDir(last'.arg) \notin DOMAIN fs'
             /\ last'.arg \notin Declared(manifest')
             /\ ~Has(manifest'.collections, last'.arg)
             /\ last'.arg \notin LockedNames(lockfile')]_vars

\* the value of key n in an ordered map, UNDEFINED-free: <<>> when absent
Entry(o, n) == IF Has(o, n) THEN Get(o, n) ELSE <<>>

\* what manifest, lockfile and disk hold for name n
Holding(m, lf, f, n) ==
    [dep |-> Entry(m.dependencies, n), dev |-> Entry(m.devDependencies, n),
     coll |-> Entry(m.collections, n), lock |-> LockEntry(lf, n),
     copy |-> IF PackageDir(n) \in DOMAIN f THEN f[PackageDir(n)] ELSE <<>>]

\* nothing is left of name n
Removed(m, lf, f, n) ==
    /\ PackageDir(n) \notin DOMAIN f
    /\ n \notin Declared(m)
    /\ ~Has(m.collections, n)
    /\ n \notin LockedNames(lf)

\* C11: remove(name) of a declared dependency, in whatever state (no working copy,
\* installed, updated; git or local), succeeds when no call fails and leaves nothing
\* of it: no working copy, no manifest entry, no collections entry, no lock entry;
\* what is held for the other names is unchanged.
C11_RemoveDeclaredSucceeds ==
    [][(last'.op = "remove" /\ ~last'.faulted /\ last'.arg \in Declared(manifest))
       => (/\ last'.err = ""
           /\ Removed(manifest', lockfile', fs', last'.arg)
           /\ \A n \in Names \ {last'.arg} :
                Holding(manifest', lockfile', fs', n) = Holding(manifest, lockfile, fs, n))]_vars

\* C12: remove(name) of a name that is neither in the manifest nor in the lockfile
\* fails with PackageNotInstalled, writes no file and deletes nothing, whatever
\* lies at odin_packages/<name>.
C12_RemoveUnknownFails ==
    [][(/\ last'.op = "remove"
        /\ last'.arg \notin Declared(manifest)
        /\ last'.arg \notin LockedNames(lockfile))
       => (/\ last'.err = "PackageNotInstalled"
           /\ last'.calls \cap {"rm", "writeManifest", "writeLock"} = {}
           /\ manifest' = manifest /\ lockfile' = lockfile /\ fs' = fs)]_vars

\* C13: update(name) of a name that is not declared, or declared without a working
\* copy, fails with PackageNotInstalled and changes neither working copies nor
\* manifest nor lockfile.
C13_UpdateAbsentFails ==
    [][(/\ last'.op = "update" /\ last'.arg # <<>>
        /\ (last'.arg \notin Declared(manifest) \/ PackageDir(last'.arg) \notin DOMAIN fs))
       => (/\ last'.err = "PackageNotInstalled"
           /\ manifest' = manifest /\ lockfile' = lockfile /\ fs' = fs)]_vars

\* the names an update with argument arg processes
Processed(m, arg) == IF arg = <<>> THEN Declared(m) ELSE {arg}

\* the tip of the ref a git working copy tracks
TipOf(f, n) == RefRev(f[PackageDir(n)].origin, f[PackageDir(n)].ref)

\* n has a git working copy on a branch that can be fast-forwarded to its tip
CanFastForward(f, n) ==
    /\ IsGitCopy(f, n)
    /\ f[PackageDir(n)].head > 0
    /\ ~f[PackageDir(n)].detached
    /\ f[PackageDir(n)].head <= TipOf(f, n)

\* C14: an update (not dry-run, no call failing) of an installed remote-git
\* dependency whose tip differs from the commit pinned in its lock entry leaves the
\* working copy at the tip and the lock entry's commit rewritten to the tip, also
\* when the working copy was not at the pinned commit before.
C14_UpdateRepinsToTip ==
    [][(last'.op = "update" /\ ~last'.flag /\ ~last'.faulted)
       => \A n \in Processed(manifest, last'.arg) :
            (/\ IsRemoteGit(manifest, n)
             /\ CanFastForward(fs, n)
             /\ n \in LockedNames(lockfile)
             /\ LockEntry(lockfile, n).commit # Hash(fs[PackageDir(n)].origin, TipOf(fs, n)))
            => (/\ IsGitCopy(fs', n)
                /\ fs'[PackageDir(n)].head = TipOf(fs, n)
                /\ LockEntry(lockfile', n).commit = CopyHash(fs', n))]_vars

\* C15: an update (not dry-run) in which every processed working copy is already
\* at the tip of its ref does not write the lockfile and leaves lockfile and
\* manifest as they were.
C15_UpdateNoChangeNoWrite ==
    [][(/\ last'.op = "update" /\ ~last'.flag
        /\ \A n \in Processed(manifest, last'.arg) :
             IsGitCopy(fs, n) => fs[PackageDir(n)].head \in {0, TipOf(fs, n)})
       => (/\ "writeLock" \notin last'.calls
           /\ lockfile' = lockfile
           /\ manifest' = manifest)]_vars

\* an update has pulled a working copy that was already at its tip
C15_Witness ==
    /\ last.op = "update" /\ ~last.flag /\ last.err = "" /\ ~last.faulted
    /\ "pull" \in last.calls /\ "writeLock" \notin last.calls
    /\ \E n \in Processed(manifest, last.arg) :
        IsGitCopy(fs, n) /\ fs[PackageDir(n)].head = TipOf(fs, n)

\* C16: a dry-run update changes nothing: manifest and lockfile are as before and
\* not written, every working copy is where it was and at the revision it had,
\* whether the remotes have new commits or not and whether a call fails or not.
C16_DryRunMutatesNothing ==
    [][(last'.op = "update" /\ last'.flag)
       => (/\ manifest' = manifest
           /\ lockfile' = lockfile
           /\ last'.calls \cap {"writeLock", "writeManifest", "pull", "checkout", "rm"} = {}
           /\ DOMAIN fs' = DOMAIN fs
           /\ \A p \in DOMAIN fs :
                fs'[p].head = fs[p].head /\ fs'[p].detached = fs[p].detached)]_vars

\* a dry-run update has fetched a working copy whose remote has new commits
C16_Witness ==
    /\ last.op = "update" /\ last.flag /\ last.err = ""
    /\ "fetch" \in last.calls
    /\ \E n \in Processed(manifest, last.arg) :
        IsGitCopy(fs, n) /\ fs[PackageDir(n)].head < TipOf(fs, n)

\* C17: an add that succeeds for a package with nothing at odin_packages/<name>
\* leaves: a clone of the parsed origin at the requested ref (or a link to the local
\* path) at odin_packages/<name>; name -> spec in devDependencies when isDev, in
\* dependencies otherwise; collections[name] = odin_packages/<name>; and the lock
\* entry {specifier: spec, resolved: origin, commit: the clone's commit or "local"}.
C17_AddInstalls ==
    [][(/\ last'.op = "add" /\ last'.err = ""
        /\ PackageDir(parsePackageSpec(last'.arg).name) \notin DOMAIN fs)
       => LET spec == last'.arg
              source == parsePackageSpec(spec)
              dir == PackageDir(source.name)
          IN  /\ dir \in DOMAIN fs'
              /\ IF source.type = "local"
                 THEN fs'[dir] = SymLink(source.url)
                 ELSE /\ fs'[dir].kind = "git"
                      /\ fs'[dir].origin = source.url
                      /\ fs'[dir].head = RefRev(source.url, source.ref)
                      /\ fs'[dir].head > 0
              /\ IF last'.flag
                 THEN /\ Entry(manifest'.devDependencies, source.name) = spec
                      /\ manifest'.dependencies = manifest.dependencies
                 ELSE /\ Entry(manifest'.dependencies, source.name) = spec
                      /\ manifest'.devDependencies = manifest.devDependencies
              /\ Entry(manifest'.collections, source.name) = dir
              /\ LockEntry(lockfile', source.name) =
                    [specifier |-> spec, resolved |-> source.url,
                     commit |-> IF source.type = "local" THEN LOCAL_COMMIT
                                ELSE Hash(source.url, fs'[dir].head)]]_vars

\* a dev dependency with a ref hint has been added by a clone of that ref
C17_Witness ==
    /\ last.op = "add" /\ last.err = "" /\ last.flag
    /\ "clone" \in last.calls
    /\ parsePackageSpec(last.arg).ref # <<>>
    /\ Entry(manifest.devDependencies, parsePackageSpec(last.arg).name) = last.arg

\* name n is present: declared, locked, and materialized as a clone or a link
Present(m, lf, f, n) ==
    /\ n \in Declared(m)
    /\ n \in LockedNames(lf)
    /\ PackageDir(n) \in DOMAIN f
    /\ \/ f[PackageDir(n)].kind = "link"
       \/ f[PackageDir(n)].kind = "git" /\ f[PackageDir(n)].head > 0

\* C18: an add (no call failing) of a dependency that is already present, remote-git
\* or local-path, raises no error and leaves manifest, lockfile and disk exactly as
\* update(name) would.
C18_AddPresentIsUpdate ==
    [][(/\ last'.op = "add" /\ ~last'.faulted
        /\ Present(manifest, lockfile, fs, parsePackageSpec(last'.arg).name))
       => (/\ last'.err = ""
           /\ manifest' = updatePackage(Ctx(0, FALSE), parsePackageSpec(last'.arg).name, FALSE).c.mf
           /\ lockfile' = updatePackage(Ctx(0, FALSE), parsePackageSpec(last'.arg).name, FALSE).c.lf
           /\ fs' = updatePackage(Ctx(0, FALSE), parsePackageSpec(last'.arg).name, FALSE).c.fs)]_vars

\* C19: an add, a remove or an update of one name that ends in an error leaves the
\* manifest file and the lockfile with exactly the content they had before.
C19_FailureLeavesFiles ==
    [][(/\ \/ last'.op \in {"add", "remove"}
           \/ last'.op = "update" /\ last'.arg # <<>>
        /\ last'.err # "")
       => (manifest' = manifest /\ lockfile' = lockfile)]_vars

\* C20: an install that has passed its preconditions (dependencies declared, the
\* frozen check) runs its loop to the end whatever fails for a package, and then
\* persists the collections; a batch update never ends in an error for a failure
\* of a package.
C20_BatchContinues ==
    [][/\ (/\ last'.op = "install"
           /\ Declared(manifest) # {}
           /\ last'.err # "LockfileIncomplete")
          => "writeManifest" \in last'.calls
       /\ (/\ last'.op = "update" /\ last'.arg = <<>>
           /\ "writeLock" \notin last'.calls)
          => last'.err = ""]_vars

\* the calls that transfer revisions: clone, fetch, pull, checkout
TransferCalls == {"clone", "cloneNoCheckout", "fetch", "pull", "checkout"}

Partial(f, n) ==
    PackageDir(n) \in DOMAIN f /\ f[PackageDir(n)].kind = "git" /\ f[PackageDir(n)].head = 0

\* the names list marks as installed
ListedInstalled(m, f) ==
    {listPackages(m, f).deps[i].name :
        i \in {j \in 1..Len(m.dependencies) : listPackages(m, f).deps[j].installed}}
    \cup {listPackages(m, f).devDeps[i].name :
        i \in {j \in 1..Len(m.devDependencies) : listPackages(m, f).devDeps[j].installed}}

\* C22: a partial working copy left by a clone that failed is not taken for an
\* installed package: list does not mark it as installed; an install that runs its
\* loop does not skip it (it completes it or reports it as failed); an add of it
\* fetches it instead of updating it.
C22_PartialNotInstalled ==
    [][\A d \in Names :
         Partial(fs, d)
         => /\ d \notin ListedInstalled(manifest, fs)
            /\ (/\ last'.op = "install" /\ d \in Declared(manifest)
                /\ last'.err = "")
               => (d \in last'.failed \/ ~Partial(fs', d))
            /\ (/\ last'.op = "add" /\ parsePackageSpec(last'.arg).name = d
                /\ ~last'.faulted)
               => ("pull" \notin last'.calls /\ ~Partial(fs', d))]_vars

\* the lock entry of n was recorded for a path: specifier
IsLocalEntry(lf, n) ==
    n \in LockedNames(lf) /\ StartsWith(LockEntry(lf, n).specifier, <<"p","a","t","h",":">>)

\* C23: a lock entry recorded for a path: specifier always has the commit "local";
\* an update or a frozen install leaves every local-path target as it was and, when
\* no remote-git dependency is declared or cloned, runs no pull, fetch or checkout;
\* this also when the target is a git working copy.
C23_LocalNeverPinned ==
    [][/\ \A n \in Names :
            IsLocalEntry(lockfile', n) => LockEntry(lockfile', n).commit = LOCAL_COMMIT
       /\ (last'.op = "update" \/ (last'.op = "install" /\ last'.flag))
          => /\ \A p \in LocalPaths : fs'[p] = fs[p]
             /\ (\A n \in Names : ~IsGitCopy(fs, n) /\ ~IsRemoteGit(manifest, n))
                => last'.calls \cap {"pull", "fetch", "checkout"} = {}]_vars

\* the keys of packages in a lockfile text, in the order they are written
TextKeys(text) ==
    [i \in 1..Len(SelectSeq(text, LAMBDA l : l.t = "entry")) |->
        SelectSeq(text, LAMBDA l : l.t = "entry")[i].k]

\* a sequence of strings in strictly ascending text order
Ascending(keys) == \A i \in 1..Len(keys) : \A j \in (i + 1)..Len(keys) : StrLess(keys[i], keys[j])

\* C24: whatever entries were set, removed and set again, in whatever order, for
\* names the specifier parser derives (names of digits among them), the file that
\* saveLockfile has written lists the keys of packages in ascending text order and
\* ends with a newline.
C24_SavedKeysSorted ==
    (store.pc = "idle" /\ store.file.exists)
    => /\ Ascending(TextKeys(store.file.text))
       /\ store.file.text[Len(store.file.text)].t = "newline"

\* C25: whenever another process reads opm.lock, it finds either the complete file
\* as it was before the save under way (or finished last), or the complete new file.
C25_ReaderSeesWholeFile ==
    [][last'.op = "read"
       => store'.seen \in {store.old, [exists |-> TRUE, text |-> store.pending]}]_vars

\* C26: loadLockfile without a lockfile on disk does not fail, returns
\* {version: 1, packages: {}} and leaves the file absent.
C26_LoadWithoutFile ==
    [][(last'.op = "load" /\ ~store.file.exists)
       => /\ last'.err = ""
          /\ store'.held
          /\ store'.obj = [version |-> 1, packages |-> <<>>]
          /\ store'.file = store.file]_vars

\* a load has run with no lockfile on disk and returned the empty lockfile
C26_Witness ==
    /\ last.op = "load" /\ last.err = ""
    /\ ~store.file.exists
    /\ store.held /\ store.obj.packages = <<>>

\* the orders in which the entries of an ordered map can be iterated
Orders(o) ==
    {[i \in 1..Len(o) |-> o[p[i]]] :
        p \in {q \in [1..Len(o) -> 1..Len(o)] : \A i, j \in 1..Len(o) : q[i] = q[j] => i = j}}

\* an install of the current project that iterates the dependencies in the order deps
InstallIn(deps, frozen, fault, kill) ==
    InstallChecked(Ctx(fault, kill), frozen, deps, loadLockfile(lockfile))

\* what failed in a run: for which packages, in which kind of call, and whether
\* the call died half-way
Outcomes(out) ==
    [failed |-> out.failed,
     kind |-> IF out.c.fault # 0 /\ out.c.fault <= out.c.n THEN out.c.log[out.c.fault] ELSE "none",
     kill |-> out.c.kill /\ out.c.fault # 0 /\ out.c.fault <= out.c.n]

\* two maps with the same keys and values, whatever their order
SameMap(a, b) == KeySet(a) = KeySet(b) /\ \A k \in KeySet(a) : Get(a, k) = Get(b, k)

\* two runs ended with the same manifest, lockfile and working copies
SameEnd(a, b) ==
    /\ SameMap(a.c.mf.dependencies, b.c.mf.dependencies)
    /\ SameMap(a.c.mf.devDependencies, b.c.mf.devDependencies)
    /\ SameMap(a.c.mf.collections, b.c.mf.collections)
    /\ a.c.lf = b.c.lf
    /\ a.c.fs = b.c.fs

\* the number of calls an install can make in this model
MaxCalls == 12

\* two runs in which the same calls failed for the same packages: without an
\* injected failure both, or with the one injected failure in the same kind of call
\* of the same package (failed names that package when nothing else fails)
SameOutcomes(a, b, a0, b0) ==
    /\ Outcomes(a) = Outcomes(b)
    /\ Outcomes(a).kind # "none" => (a0.failed = {} /\ b0.failed = {})

\* C27: in every state, two installs that differ only in the order in which they
\* iterate the declared dependencies, with the same failures for the same packages,
\* frozen or not, end with the same manifest, lockfile and working copies.
C27_OrderIrrelevant ==
    \A frozen \in BOOLEAN :
        \A deps \in Orders(Spread(manifest.dependencies, manifest.devDependencies)) :
            \A f1, f2 \in 0..MaxCalls : \A kill \in BOOLEAN :
                SameOutcomes(InstallIn(Spread(manifest.dependencies, manifest.devDependencies),
                                       frozen, f1, kill),
                             InstallIn(deps, frozen, f2, kill),
                             InstallIn(Spread(manifest.dependencies, manifest.devDependencies),
                                       frozen, 0, FALSE),
                             InstallIn(deps, frozen, 0, FALSE))
                => SameEnd(InstallIn(Spread(manifest.dependencies, manifest.devDependencies),
                                     frozen, f1, kill),
                           InstallIn(deps, frozen, f2, kill))

\* C28: a command line invocation (add, remove, update, install) exits with a
\* code other than 0 when its command ended in an error, and also when an install
\* or update failed to install or update a dependency.
C28_ExitCodeTellsFailure ==
    [][(last'.op \in {"add", "remove"} \/ (last'.op \in {"install", "update"} /\ ~last'.flag))
       => /\ last'.err # "" => ExitCode(last'.err) # 0
          /\ (last'.op \in {"install", "update"} /\ last'.failed # {})
             => ExitCode(last'.err) # 0]_vars

\* the words of the two command lines
CMD_INSTALL == <<"i","n","s","t","a","l","l">>
CMD_UPDATE == <<"u","p","d","a","t","e">>
FLAG_FROZEN == <<"-","-","f","r","o","z","e","n">>
FLAG_DRY_RUN == <<"-","-","d","r","y","-","r","u","n">>

\* C29: in every state, `install --frozen` is installPackages in frozen mode (with
\* a declared dependency that has no lock entry it exits with a code other than 0,
\* makes no call and writes neither manifest nor lockfile), and
\* `update <name> --dry-run` is updatePackage(name) in dry-run mode.
C29_CliFlags ==
    /\ main(Ctx(0, FALSE), <<CMD_INSTALL, FLAG_FROZEN>>) = installPackages(Ctx(0, FALSE), TRUE)
    /\ Declared(manifest) \ LockedNames(lockfile) # {}
       => /\ ExitCode(main(Ctx(0, FALSE), <<CMD_INSTALL, FLAG_FROZEN>>).err) # 0
          /\ main(Ctx(0, FALSE), <<CMD_INSTALL, FLAG_FROZEN>>).c.calls = {}
          /\ main(Ctx(0, FALSE), <<CMD_INSTALL, FLAG_FROZEN>>).c.mf = manifest
          /\ main(Ctx(0, FALSE), <<CMD_INSTALL, FLAG_FROZEN>>).c.lf = lockfile
    /\ \A n \in Names :
        main(Ctx(0, FALSE), <<CMD_UPDATE, n, FLAG_DRY_RUN>>) = updatePackage(Ctx(0, FALSE), n, TRUE)

\* the names a command operates on
Touched(m, op, arg) ==
    IF op = "add" THEN {parsePackageSpec(arg).name}
    ELSE IF op = "remove" THEN {arg}
    ELSE Declared(m)

\* C30: add, remove and install leave every member of the manifest other than
\* dependencies, devDependencies and collections as it was, add or drop no member,
\* and change in the three maps only entries of the names they operate on (install:
\* collections entries of declared names only).
C30_ManifestFrame ==
    [][last'.op \in {"add", "remove", "install"}
       => /\ DOMAIN manifest' = DOMAIN manifest
          /\ manifest'.other = manifest.other
          /\ \A k \in Names \ Touched(manifest, last'.op, last'.arg) :
                /\ Entry(manifest'.dependencies, k) = Entry(manifest.dependencies, k)
                /\ Entry(manifest'.devDependencies, k) = Entry(manifest.devDependencies, k)
                /\ Entry(manifest'.collections, k) = Entry(manifest.collections, k)
          /\ last'.op = "install"
               => /\ manifest'.dependencies = manifest.dependencies
                  /\ manifest'.devDependencies = manifest.devDependencies]_vars

\* a remove has rewritten a manifest that holds another dependency
C30_Witness ==
    /\ last.op = "remove" /\ last.err = "" /\ "writeManifest" \in last.calls
    /\ Declared(manifest) # {}
    /\ \E k \in Declared(manifest) : Has(manifest.collections, k)
    /\ manifest.other = OtherFields

\* the classes [\w-] and [\w.-]
NameChars == WordChars \cup {"-"}
RefChars == WordChars \cup {".", "-"}

\* a non-empty text of the class [\w-]
IsName(s) == s # <<>> /\ \A i \in 1..Len(s) : s[i] \in NameChars

\* a non-empty text of the class [\w.-]
IsRefText(s) == s # <<>> /\ \A i \in 1..Len(s) : s[i] \in RefChars

\* what the grammar says of the shorthand owner/repo followed by rest, where rest
\* is empty or a mark and a revision hint
ShorthandMeaning(owner, repo, rest) ==
    [ok |-> TRUE, name |-> repo, type |-> "github",
     url |-> <<"h","t","t","p","s",":","/","/","g","i","t","h","u","b",".","c","o","m","/">>
             \o owner \o <<"/">> \o repo,
     ref |-> IF rest = <<>> THEN <<>> ELSE Tail(rest)]

HasTagAndBranch(t) ==
    \E i \in 2..Len(t) : \E j \in (i + 1)..(Len(t) - 3) : \E k \in (j + 2)..(Len(t) - 1) :
        /\ t[i] = "/" /\ t[j + 1] = "@" /\ t[k + 1] = "#"
        /\ IsName(SubSeq(t, 1, i - 1))
        /\ IsName(SubSeq(t, i + 1, j))
        /\ IsRefText(SubSeq(t, j + 2, k))
        /\ IsRefText(Slice(t, k + 1))

\* C32: whenever a typed text that reads owner/repo@tag#branch has been parsed,
\* the parser has rejected it (InvalidSpecifier).
C32_TagAndBranchRejected ==
    (parsed.pc = "parsed" /\ HasTagAndBranch(parsed.text)) => ~parsed.out.ok

\* the text reads owner/repo, owner/repo@tag or owner/repo#branch
IsValidShorthand(t) ==
    \E i \in 2..Len(t) : \E j \in (i + 1)..Len(t) :
        /\ t[i] = "/"
        /\ IsName(SubSeq(t, 1, i - 1))
        /\ IsName(SubSeq(t, i + 1, j))
        /\ \/ j = Len(t)
           \/ t[j + 1] \in {"@", "#"} /\ IsRefText(Slice(t, j + 1))

\* C33: whenever a typed text github:<s> has been parsed, the result is the one
\* of parsing <s> when <s> is a valid shorthand, and a rejection
\* (InvalidSpecifier) when it is not.
C33_ExplicitIsShorthand ==
    (parsed.pc = "parsed" /\ StartsWith(parsed.text, <<"g","i","t","h","u","b",":">>))
    => IF IsValidShorthand(Slice(parsed.text, 7))
       THEN parsed.out = parsePackageSpec(Slice(parsed.text, 7))
       ELSE ~parsed.out.ok

\* the text after the last slash of t (t itself when it has none)
FinalSegment(t) ==
    IF \E i \in 1..Len(t) : t[i] = "/"
    THEN SubSeq(t, 1 + CHOOSE i \in 1..Len(t) : t[i] = "/" /\ \A j \in (i + 1)..Len(t) : t[j] # "/",
                Len(t))
    ELSE t

\* t without the suffix .git, when it ends with it
WithoutGitSuffix(t) ==
    IF Len(t) >= 4 /\ SubSeq(t, Len(t) - 3, Len(t)) = <<".","g","i","t">>
    THEN SubSeq(t, 1, Len(t) - 4)
    ELSE t

\* C34: whenever a typed text git:<url> has been parsed, the result is a git source
\* with origin <url> and no revision hint, and its name is the final path segment
\* of <url> without a trailing .git (when that leaves a name at all).
C34_GitUrlParses ==
    (parsed.pc = "parsed" /\ StartsWith(parsed.text, <<"g","i","t",":">>))
    => /\ parsed.out.ok
       /\ parsed.out.type = "git"
       /\ parsed.out.url = Slice(parsed.text, 4)
       /\ parsed.out.ref = <<>>
       /\ WithoutGitSuffix(FinalSegment(Slice(parsed.text, 4))) # <<>>
          => parsed.out.name = WithoutGitSuffix(FinalSegment(Slice(parsed.text, 4)))

\* the final segment of a path: the text between its last slash and its end,
\* slashes at the end of the path set aside (none for a path of slashes only)
BaseName(t) ==
    IF \A i \in 1..Len(t) : t[i] = "/" THEN <<>>
    ELSE FinalSegment(SubSeq(t, 1,
            CHOOSE i \in 1..Len(t) : t[i] # "/" /\ \A j \in (i + 1)..Len(t) : t[j] = "/"))

\* C35: whenever a typed text path:<path> has been parsed, the result is a local
\* source with origin <path> and without a revision hint, and its name is the
\* final segment of <path> (when the path has one).
C35_LocalPathParses ==
    (parsed.pc = "parsed" /\ StartsWith(parsed.text, <<"p","a","t","h",":">>))
    => /\ parsed.out.ok
       /\ parsed.out.type = "local"
       /\ parsed.out.url = Slice(parsed.text, 5)
       /\ parsed.out.ref = <<>>
       /\ BaseName(Slice(parsed.text, 5)) # <<>>
          => parsed.out.name = BaseName(Slice(parsed.text, 5))

\* C36: in every state, every entry of the lockfile on disk has a specifier the
\* parser accepts and a resolved field that is not empty and equals the origin
\* the parser gives for that specifier.
C36_LockEntriesResolved ==
    \A n \in LockedNames(lockfile) :
        /\ parsePackageSpec(LockEntry(lockfile, n).specifier).ok
        /\ LockEntry(lockfile, n).resolved # <<>>
        /\ LockEntry(lockfile, n).resolved = parsePackageSpec(LockEntry(lockfile, n).specifier).url

\* C37: an add that returns without error leaves the derived name declared with
\* exactly the specifier given, and at odin_packages/<name> a working copy (or
\* link) whose origin is the origin of that specifier.
C37_AddDeclaresAndFetches ==
    [][(last'.op = "add" /\ last'.err = "")
       => /\ parsePackageSpec(last'.arg).name \in Declared(manifest')
          /\ DeclaredSpec(manifest', parsePackageSpec(last'.arg).name) = last'.arg
          /\ PackageDir(parsePackageSpec(last'.arg).name) \in DOMAIN fs'
          /\ fs'[PackageDir(parsePackageSpec(last'.arg).name)].origin
                = parsePackageSpec(last'.arg).url]_vars

\* C38: a loadLockfile that follows a completed saveLockfile does not fail and
\* returns the version and the name-to-entry mapping that were saved, and saving
\* what it returned would write the very text that is in the file.
C38_SaveLoadRoundTrip ==
    [][(last.op = "write" /\ store.pc = "idle" /\ last'.op = "load")
       => /\ last'.err = ""
          /\ store'.obj.version = store.obj.version
          /\ SameMap(store'.obj.packages, store.obj.packages)
          /\ LockText(SortedLockfile(store'.obj)) = store.file.text]_vars

\* two entries, one of them under an integer-like name, were saved and loaded again
C38_Witness ==
    /\ last.op = "load" /\ last.err = ""
    /\ store.file.exists /\ store.file.text = store.pending
    /\ Len(store.obj.packages) = 2
    /\ Has(store.obj.packages, <<"9">>)
    /\ LockText(store.obj) = store.file.text

\* C39: whenever another process reads the link while a switch from one installed
\* version to another is under way, it finds the link pointing at the old or at the
\* new version; and a useVersion of a version that is not installed fails and
\* leaves the link and the global config as they were.
C39_SwitchIsAtomic ==
    [][/\ (last'.op = "observe" /\ toolchain.pc # "idle" /\ toolchain.was # "")
          => toolchain'.seen \in {toolchain.was, toolchain.target}
       /\ (last'.op = "use" /\ last'.arg \notin toolchain.installed)
          => /\ last'.err # ""
             /\ toolchain'.link = toolchain.link
             /\ toolchain'.config = toolchain.config]_vars

====
